---- MODULE Spec2Model ----
(***************************************************************************)
(* geobox: the bounding-volume hierarchy of src/src/bvh.cpp                *)
(* (BVH::from_bounding_boxes, BVH::foreach_node and the queries built on   *)
(* it), modelled as a state machine.                                       *)
(*                                                                         *)
(* Conventions.                                                            *)
(*  - A vec3 is a tuple <<x, y, z>>; axis a of the code (0, 1, 2) is       *)
(*    component a + 1 of the tuple.                                        *)
(*  - Coordinates are integers.  A bounding-box center is kept doubled     *)
(*    (min + max instead of min * 0.5 + max * 0.5) and the mean and the    *)
(*    variance are kept multiplied by the common positive factors 2n and   *)
(*    4n^2, so that every comparison the code makes on them is made here   *)
(*    on exact integers.  Floating-point rounding is not modelled.         *)
(*  - A pointer into m_primitive_indices or into the node arena is its     *)
(*    offset from the start of that allocation; NULL is the null pointer.  *)
(***************************************************************************)
EXTENDS Integers, Sequences, FiniteSets, TLC

VARIABLES bounding_boxes, bvh, twin, trav, ov, query, mesh, app

vars == <<bounding_boxes, bvh, twin, trav, ov, query, mesh, app>>

\* the variables of the queries, of the mesh import and of the application
others == <<query, mesh, app>>

(***************************************************************************)
(* Bounds of the model.                                                    *)
(***************************************************************************)
MaxPrimitives == 3

MaxExcess == 5

UIntBits == 6

NULL == -1

(***************************************************************************)
(* vec3 and AABB                                                           *)
(***************************************************************************)
Vec3(x, y, z) == <<x, y, z>>

Min2(a, b) == IF b < a THEN b ELSE a

Max2(a, b) == IF a < b THEN b ELSE a

glm_min(u, v) == <<Min2(u[1], v[1]), Min2(u[2], v[2]), Min2(u[3], v[3])>>

glm_max(u, v) == <<Max2(u[1], v[1]), Max2(u[2], v[2]), Max2(u[3], v[3])>>

AABB(lo, hi) == [min |-> lo, max |-> hi]

ZeroAABB == AABB(Vec3(0, 0, 0), Vec3(0, 0, 0))

\* The boxes the inputs are drawn from: two points, a flat box, a box with
\* extent on x and z, and a point whose y and z centers tie.
BoxPool ==
  { AABB(Vec3(0, 0, 0), Vec3(0, 0, 0)),
    AABB(Vec3(4, 0, 0), Vec3(4, 0, 0)),
    AABB(Vec3(0, 0, 0), Vec3(2, 4, 0)),
    AABB(Vec3(1, 1, 3), Vec3(3, 1, 5)),
    AABB(Vec3(0, 4, 4), Vec3(0, 4, 4)) }

Inputs == UNION { [0..(n - 1) -> BoxPool] : n \in 0..MaxPrimitives }

NumPrimitives == Cardinality(DOMAIN bounding_boxes)

(***************************************************************************)
(* BVH::Node                                                               *)
(***************************************************************************)
Node(aabb, first, last, left, right) ==
  [aabb |-> aabb, first |-> first, last |-> last, left |-> left, right |-> right]

is_leaf(node) == node.left = NULL /\ node.right = NULL

\* the count with the + 1 of the inclusive range forgotten
num_primitives_exclusive(node) == node.last - node.first

num_primitives(node) == node.last - node.first + 1

\* What malloc hands out: a slot nobody has written yet.  Its contents differ
\* from one allocation to the next (seed).
Garbage(seed) == Node(ZeroAABB, -seed - 1, -seed - 1, -seed - 1, -seed - 1)

\* sizeof(Node) * (2 * num_primitives - 1)
ArenaCapacity(n) == 2 * n - 1

malloc_nodes(n, seed) == [k \in 0..(ArenaCapacity(n) - 1) |-> Garbage(seed)]

\* first and last assigned one by one, the other members left as malloc
\* returned them
NodeInit_ranges_only(old, f, l) == [old EXCEPT !.first = f, !.last = l]

\* *(node) = {.first = f, .last = l, .left = nullptr, .right = nullptr}:
\* the members not named (aabb) are value-initialised.
NodeInit(old, f, l) == Node(ZeroAABB, f, l, NULL, NULL)

(***************************************************************************)
(* bounding-box centers, doubled                                           *)
(***************************************************************************)
Center2(box) == <<box.min[1] + box.max[1], box.min[2] + box.max[2], box.min[3] + box.max[3]>>

bounding_box_centers(bb) == [i \in DOMAIN bb |-> Center2(bb[i])]

(***************************************************************************)
(* calc_aabb_indirect                                                      *)
(***************************************************************************)
RECURSIVE MinLoop(_, _, _, _, _)
MinLoop(bb, idx, i, last, acc) ==
  IF i > last THEN acc
  ELSE MinLoop(bb, idx, i + 1, last, glm_min(acc, bb[idx[i]].min))

RECURSIVE MaxLoop(_, _, _, _, _)
MaxLoop(bb, idx, i, last, acc) ==
  IF i > last THEN acc
  ELSE MaxLoop(bb, idx, i + 1, last, glm_max(acc, bb[idx[i]].max))

\* the second loop stopping one short of last
calc_aabb_indirect_short(bb, idx, first, last) ==
  LET aabb == bb[idx[first]]
  IN  AABB(MinLoop(bb, idx, first, last, aabb.min),
           MaxLoop(bb, idx, first, last - 1, aabb.max))

calc_aabb_indirect(bb, idx, first, last) ==
  LET aabb == bb[idx[first]]
  IN  AABB(MinLoop(bb, idx, first, last, aabb.min),
           MaxLoop(bb, idx, first, last, aabb.max))

(***************************************************************************)
(* variance, axis and split position                                       *)
(***************************************************************************)
\* sum over the range of the doubled center on axis a: 2n * mean[a]
RECURSIVE SumLoop(_, _, _, _, _)
SumLoop(c2, idx, i, last, a) ==
  IF i > last THEN 0
  ELSE c2[idx[i]][a + 1] + SumLoop(c2, idx, i + 1, last, a)

\* sum over the range of the squared doubled center: 4n * mean_of_squares[a]
RECURSIVE SumSqLoop(_, _, _, _, _)
SumSqLoop(c2, idx, i, last, a) ==
  IF i > last THEN 0
  ELSE c2[idx[i]][a + 1] * c2[idx[i]][a + 1] + SumSqLoop(c2, idx, i + 1, last, a)

\* 4n^2 * (mean_of_squares - mean * mean)[a]
Variance(c2, idx, first, last, a) ==
  LET n == last - first + 1
      s == SumLoop(c2, idx, first, last, a)
  IN  n * SumSqLoop(c2, idx, first, last, a) - s * s

\* ties going to the higher axis
ChooseAxis_ties_up(c2, idx, first, last) ==
  LET v(a) == Variance(c2, idx, first, last, a)
      axis1 == IF v(1) >= v(0) THEN 1 ELSE 0
  IN  IF v(2) >= v(axis1) THEN 2 ELSE axis1

\* the first axis whatever the variances
ChooseAxis_first(c2, idx, first, last) == 0

\* lines 188-195: the axis of greatest variance
ChooseAxis(c2, idx, first, last) ==
  LET v(a) == Variance(c2, idx, first, last, a)
      axis1 == IF v(1) > v(0) THEN 1 ELSE 0
  IN  IF v(2) > v(axis1) THEN 2 ELSE axis1

\* the primitives for which the partition predicate
\* bounding_box_centers[i][axis] < split_pos holds (split_pos = mean[axis])
LessThanSplit(c2, idx, first, last, axis) ==
  LET n == last - first + 1
      s == SumLoop(c2, idx, first, last, axis)
  IN  { i \in DOMAIN c2 : n * c2[i][axis + 1] < s }

(***************************************************************************)
(* std::partition on [first, last) of the index array; T holds the values  *)
(* the predicate is true of.  The in-place two-ended algorithm: advance    *)
(* first over the true ones, retreat last over the false ones, swap.       *)
(***************************************************************************)
\* the swap left out
Swap_none(idx, i, j) == idx

Swap(idx, i, j) == [idx EXCEPT ![i] = idx[j], ![j] = idx[i]]

RECURSIVE AdvanceFirst(_, _, _, _)
AdvanceFirst(idx, first, last, T) ==
  IF first = last THEN first
  ELSE IF idx[first] \in T THEN AdvanceFirst(idx, first + 1, last, T)
  ELSE first

RECURSIVE RetreatLast(_, _, _, _)
RetreatLast(idx, first, last, T) ==
  IF first = last THEN last
  ELSE IF idx[last] \notin T THEN RetreatLast(idx, first, last - 1, T)
  ELSE last

RECURSIVE std_partition(_, _, _, _)
std_partition(idx, first, last, T) ==
  LET f == AdvanceFirst(idx, first, last, T)
  IN  IF f = last THEN [indices |-> idx, second_group_first |-> f]
      ELSE LET l == RetreatLast(idx, f, last - 1, T)
           IN  IF f = l THEN [indices |-> idx, second_group_first |-> f]
               ELSE std_partition(Swap(idx, f, l), f + 1, l, T)

\* only the "everything on the left" half of the test
PartitionFailed_right_only(first, last, second_group_first) ==
  second_group_first = last + 1

\* no test at all
PartitionFailed_never(first, last, second_group_first) == FALSE

\* lines 172-205: the axis of greatest variance, the split position and the
\* partition of [first, last] by it
Split(c2, idx, first, last) ==
  CHOOSE part \in
    { std_partition(idx, first, last + 1, T) :
        T \in { LessThanSplit(c2, idx, first, last, ChooseAxis(c2, idx, first, last)) } } :
    TRUE

\* "Abort current node if partitioning fails"
PartitionFailed(first, last, second_group_first) ==
  second_group_first = first \/ second_group_first = last + 1

(***************************************************************************)
(* BVH::from_bounding_boxes                                                *)
(***************************************************************************)
NotBuilt ==
  [pc |-> "start", result |-> FALSE, m_pre_allocated_nodes |-> <<>>,
   arena_size |-> 0, m_current_free_node |-> NULL, m_primitive_indices |-> <<>>,
   m_root |-> NULL, stack |-> <<>>]

Parked == [pc |-> "off"]

\* the empty check left out
IsZeroPrimitives_unchecked(n) == FALSE

IsZeroPrimitives(n) == n = 0

\* size of the arena in nodes; 0 while nothing is allocated
\* lines 118-158: the empty check, the allocations, the root, the first push
Setup(bb, seed) ==
  LET n == Cardinality(DOMAIN bb)
  IN  IF IsZeroPrimitives(n)
      THEN [NotBuilt EXCEPT !.pc = "failed"]
      ELSE LET arena == malloc_nodes(n, seed)
               cap   == Cardinality(DOMAIN arena)
           IN  [pc |-> "build", result |-> TRUE,
                m_pre_allocated_nodes |->
                  [arena EXCEPT ![0] = NodeInit(arena[0], 0, n - 1)],
                arena_size |-> cap,
                m_current_free_node |-> 1,
                m_primitive_indices |-> [i \in 0..(n - 1) |-> i],
                m_root |-> 0,
                stack |-> <<0>>]

\* a split that makes the left child only
SplitNode_one_child(s, p, rest, box, part) ==
  [s EXCEPT !.stack = rest,
            !.m_pre_allocated_nodes[p].aabb = box,
            !.m_pre_allocated_nodes[p].left = s.m_current_free_node,
            !.m_primitive_indices = part.indices,
            !.pc = IF rest = <<>> THEN "done" ELSE "build"]

\* lines 172-227: the node on top of the stack holds several primitives; box
\* is its bounding box, part the outcome of std::partition on its range
SplitNode(s, p, rest, box, part) ==
  LET node    == s.m_pre_allocated_nodes[p]
      sgf     == part.second_group_first
      l       == s.m_current_free_node
      r       == s.m_current_free_node + 1
      withBox == [s.m_pre_allocated_nodes EXCEPT ![p].aabb = box]
  IN  IF PartitionFailed(node.first, node.last, sgf)
      THEN [s EXCEPT !.stack = rest,
                     !.m_pre_allocated_nodes = withBox,
                     !.m_primitive_indices = part.indices,
                     !.pc = IF rest = <<>> THEN "done" ELSE "build"]
      ELSE IF r >= s.arena_size
      THEN \* new_node() hands out a slot past the end of the arena
           [s EXCEPT !.stack = rest,
                     !.m_pre_allocated_nodes = withBox,
                     !.m_primitive_indices = part.indices,
                     !.m_current_free_node = r + 1,
                     !.pc = "heap_overflow"]
      ELSE [s EXCEPT
              !.m_primitive_indices = part.indices,
              !.m_current_free_node = r + 1,
              !.m_pre_allocated_nodes =
                 [withBox EXCEPT
                    ![p].left = l, ![p].right = r,
                    ![l] = NodeInit(withBox[l], node.first, sgf - 1),
                    ![r] = NodeInit(withBox[r], sgf, node.last)],
              !.stack = rest \o <<l, r>>,
              !.pc = "build"]

\* lines 159-228: one iteration of the build loop on the build state s; the
\* bounding box and the partition are computed once and handed on
Iteration(bb, s) ==
  LET top   == Len(s.stack)
      p     == s.stack[top]
      rest  == SubSeq(s.stack, 1, top - 1)
      node  == s.m_pre_allocated_nodes[p]
  IN  IF node.first = node.last
      THEN [s EXCEPT !.stack = rest,
                     !.m_pre_allocated_nodes[p].aabb =
                        calc_aabb_indirect(bb, s.m_primitive_indices,
                                           node.first, node.last),
                     !.pc = IF rest = <<>> THEN "done" ELSE "build"]
      ELSE CHOOSE next \in
             { SplitNode(s, p, rest, box, part) :
                 box \in { calc_aabb_indirect(bb, s.m_primitive_indices,
                                              node.first, node.last) },
                 part \in { Split(bounding_box_centers(bb), s.m_primitive_indices,
                                  node.first, node.last) } } :
             TRUE

(***************************************************************************)
(* Filters handed to the traversals                                        *)
(***************************************************************************)
Sphere(center, radius) == [kind |-> "sphere", center |-> center, radius |-> radius]

AlwaysTrue == [kind |-> "true", center |-> Vec3(0, 0, 0), radius |-> 0]

Clamp(x, lo, hi) == Min2(Max2(x, lo), hi)

closest_point_in_aabb(point, aabb) ==
  <<Clamp(point[1], aabb.min[1], aabb.max[1]),
    Clamp(point[2], aabb.min[2], aabb.max[2]),
    Clamp(point[3], aabb.min[3], aabb.max[3])>>

distance2(u, v) ==
  (u[1] - v[1]) * (u[1] - v[1]) + (u[2] - v[2]) * (u[2] - v[2])
    + (u[3] - v[3]) * (u[3] - v[3])

point_aabb_distance_squared(point, aabb) ==
  distance2(point, closest_point_in_aabb(point, aabb))

sphere_aabb_intersection(sphere, aabb) ==
  point_aabb_distance_squared(sphere.center, aabb) <= sphere.radius * sphere.radius

\* the AABB filters: [](const AABB &) { return true; } and the sphere test
aabb_filter(f, aabb) ==
  IF f.kind = "true" THEN TRUE ELSE sphere_aabb_intersection(f, aabb)

\* the primitive filters: a predicate on the primitive index
primitive_filter(pf, i) ==
  CASE pf = "true" -> TRUE
    [] pf = "even" -> i % 2 = 0
    [] pf = "odd"  -> i % 2 = 1

QueryCenters == { Vec3(0, 0, 0), Vec3(4, 0, 0), Vec3(2, 1, 4) }

QueryRadii == { 0, 2 }

AabbFilters == {AlwaysTrue} \cup { Sphere(c, r) : c \in QueryCenters, r \in QueryRadii }

PrimitiveFilters == { "true", "even", "odd" }

(***************************************************************************)
(* BVH::foreach_node and the queries built on it                           *)
(*   tested[n]     how many times aabb_filter was called on node n         *)
(*   visits[n]     how many times foreach_node's callback was called on n  *)
(*   leaf_calls[n] how many times foreach_leaf_node's callback was         *)
(*   prim_calls[i] how many times foreach_primitive's callback was         *)
(*   result        the accumulator the query's callback captures           *)
(***************************************************************************)
TravIdle == [pc |-> "idle"]

NodePtrs == 0..(bvh.arena_size - 1)

Prims == DOMAIN bounding_boxes

\* lines 261-262: std::stack<const Node *> stack; stack.push(m_root);
Begin(op, f, pf) ==
  [pc |-> "run", op |-> op, filter |-> f, pfilter |-> pf,
   stack |-> <<bvh.m_root>>,
   tested |-> [n \in NodePtrs |-> 0],
   visits |-> [n \in NodePtrs |-> 0],
   leaf_calls |-> [n \in NodePtrs |-> 0],
   prim_calls |-> [i \in Prims |-> 0],
   result |-> 0]

\* lines 293-298: for (i = node->first; i <= node->last; i++)
\*                  if (primitive_filter(*i)) callback(*i);
\* the loop written with i < node->last
RECURSIVE PrimitiveLoop_exclusive(_, _, _, _, _)
PrimitiveLoop_exclusive(idx, i, last, pf, calls) ==
  IF i >= last THEN calls
  ELSE PrimitiveLoop_exclusive(idx, i + 1, last, pf,
         IF primitive_filter(pf, idx[i])
         THEN [calls EXCEPT ![idx[i]] = @ + 1]
         ELSE calls)

RECURSIVE PrimitiveLoop(_, _, _, _, _)
PrimitiveLoop(idx, i, last, pf, calls) ==
  IF i > last THEN calls
  ELSE PrimitiveLoop(idx, i + 1, last, pf,
         IF primitive_filter(pf, idx[i])
         THEN [calls EXCEPT ![idx[i]] = @ + 1]
         ELSE calls)

\* the callbacks the queries hand to foreach_node and foreach_leaf_node, as
\* the accumulator they leave behind after running on node
\*   count_nodes          lines 240:  num_nodes++
\*   calc_max_leaf_size   lines 246-248, behind the is_leaf test of line 283
\*   count_primitives     lines 254-255, behind the is_leaf test of line 283
NodeCallback(op, result, node) ==
  CASE op = "count_nodes" -> result + 1
    [] op = "calc_max_leaf_size" ->
         IF is_leaf(node) THEN Max2(result, num_primitives(node)) ELSE result
    [] op = "count_primitives" ->
         IF is_leaf(node) THEN result + num_primitives(node) ELSE result
    [] op = "foreach_primitive" -> result

\* lines 279-287: foreach_leaf_node calls its callback on the leaves only;
\* count_nodes is the one query that goes to foreach_node directly
LeafCallback(op, node) == op # "count_nodes" /\ is_leaf(node)

\* lines 271-275: the children are pushed with no regard to the filter
Push_no_pruning(rest, node, passes) ==
  IF ~is_leaf(node) THEN rest \o <<node.left, node.right>> ELSE rest

\* lines 266-275: what is left on the stack after the node popped from it
Push(rest, node, passes) ==
  IF passes /\ ~is_leaf(node) THEN rest \o <<node.left, node.right>> ELSE rest

\* lines 263-276: one iteration of the loop of foreach_node
Visit(t) ==
  LET top    == Len(t.stack)
      p      == t.stack[top]
      rest   == SubSeq(t.stack, 1, top - 1)
      node   == bvh.m_pre_allocated_nodes[p]
      passes == aabb_filter(t.filter, node.aabb)
      stack  == Push(rest, node, passes)
  IN  [t EXCEPT
         !.stack = stack,
         !.pc = IF stack = <<>> THEN "done" ELSE "run",
         !.tested[p] = @ + 1,
         !.visits[p] = IF passes THEN @ + 1 ELSE @,
         !.leaf_calls[p] = IF passes /\ LeafCallback(t.op, node) THEN @ + 1 ELSE @,
         !.result = IF passes THEN NodeCallback(t.op, @, node) ELSE @,
         !.prim_calls =
            IF passes /\ t.op = "foreach_primitive" /\ is_leaf(node)
            THEN PrimitiveLoop(bvh.m_primitive_indices, node.first, node.last,
                               t.pfilter, @)
            ELSE @]

Built == bvh.pc = "done" /\ bvh.result

count_nodes ==
  /\ Built /\ trav.pc = "idle"
  /\ trav' = Begin("count_nodes", AlwaysTrue, "true")
  /\ UNCHANGED <<bounding_boxes, bvh, twin, ov, others>>

calc_max_leaf_size ==
  /\ Built /\ trav.pc = "idle"
  /\ trav' = Begin("calc_max_leaf_size", AlwaysTrue, "true")
  /\ UNCHANGED <<bounding_boxes, bvh, twin, ov, others>>

count_primitives ==
  /\ Built /\ trav.pc = "idle"
  /\ trav' = Begin("count_primitives", AlwaysTrue, "true")
  /\ UNCHANGED <<bounding_boxes, bvh, twin, ov, others>>

foreach_primitive ==
  /\ Built /\ trav.pc = "idle"
  /\ \E f \in AabbFilters, pf \in PrimitiveFilters :
       trav' = Begin("foreach_primitive", f, pf)
  /\ UNCHANGED <<bounding_boxes, bvh, twin, ov, others>>

foreach_node ==
  /\ trav.pc = "run"
  /\ trav' = Visit(trav)
  /\ UNCHANGED <<bounding_boxes, bvh, twin, ov, others>>

(***************************************************************************)
(* The build and the queries on the finished tree                          *)
(***************************************************************************)
from_bounding_boxes ==
  /\ bvh.pc = "start"
  /\ bvh' = Setup(bounding_boxes, 1)
  /\ UNCHANGED <<bounding_boxes, twin, trav, ov, others>>

BuildLoop ==
  /\ bvh.pc = "build"
  /\ bvh' = Iteration(bounding_boxes, bvh)
  /\ UNCHANGED <<bounding_boxes, twin, trav, ov, others>>

Init ==
  /\ bounding_boxes \in Inputs
  /\ bvh = NotBuilt
  /\ twin = Parked
  /\ trav = TravIdle
  /\ ov = Parked
  /\ query = Parked /\ mesh = Parked /\ app = Parked

Next ==
  \/ from_bounding_boxes
  \/ BuildLoop
  \/ count_nodes
  \/ calc_max_leaf_size
  \/ count_primitives
  \/ foreach_primitive
  \/ foreach_node

Spec == Init /\ [][Next]_vars

\* The loops of the build and of the traversal run on the calling thread and
\* take their next iteration whenever there is one; whether a query is
\* issued at all is the caller's business.
\* Termination is checked on the inputs drawn from three of the boxes: two
\* distinct points and a box that holds one of them, with repetition.
FairPool ==
  { AABB(Vec3(0, 0, 0), Vec3(0, 0, 0)),
    AABB(Vec3(4, 0, 0), Vec3(4, 0, 0)),
    AABB(Vec3(0, 0, 0), Vec3(2, 4, 0)) }

FairInputs == UNION { [0..(n - 1) -> FairPool] : n \in 0..MaxPrimitives }

InitFair ==
  /\ bounding_boxes \in FairInputs
  /\ bvh = NotBuilt
  /\ twin = Parked
  /\ trav = TravIdle
  /\ ov = Parked
  /\ query = Parked /\ mesh = Parked /\ app = Parked

FairSpec ==
  /\ InitFair
  /\ [][Next]_vars
  /\ WF_vars(from_bounding_boxes \/ BuildLoop)
  /\ WF_vars(foreach_node)

(***************************************************************************)
(* Two builds of the same input, each in its own allocations               *)
(***************************************************************************)
TwinSetup ==
  /\ twin.pc = "start"
  /\ twin' = Setup(bounding_boxes, 2)
  /\ UNCHANGED <<bounding_boxes, bvh, trav, ov, others>>

TwinBuildLoop ==
  /\ twin.pc = "build"
  /\ twin' = Iteration(bounding_boxes, twin)
  /\ UNCHANGED <<bounding_boxes, bvh, trav, ov, others>>

InitTwin ==
  /\ bounding_boxes \in Inputs
  /\ bvh = NotBuilt
  /\ twin = NotBuilt
  /\ trav = TravIdle
  /\ ov = Parked
  /\ query = Parked /\ mesh = Parked /\ app = Parked

NextTwin ==
  \/ from_bounding_boxes
  \/ BuildLoop
  \/ TwinSetup
  \/ TwinBuildLoop

SpecTwin == InitTwin /\ [][NextTwin]_vars

(***************************************************************************)
(* The counters of from_bounding_boxes at their machine widths, scaled:    *)
(* unsigned int has UIntBits bits, size_t twice as many, and a float holds *)
(* UIntBits - 1 significant bits and finite values up to 2^(4 * UIntBits)  *)
(* (32, 64, 24 and 128 in the build).  Only the number of boxes matters    *)
(* here, so the boxes themselves are left out.                             *)
(***************************************************************************)
UIntMax == 2 ^ UIntBits - 1

SizeMax == 2 ^ (2 * UIntBits) - 1

FloatMantissaBits == UIntBits - 1

FloatMax == 2 ^ (4 * UIntBits)

\* the exponent e with 2^e <= n < 2^(e + 1), n >= 1
RECURSIVE Log2(_)
Log2(n) == IF n < 2 THEN 0 ELSE 1 + Log2(n \div 2)

\* static_cast<float>(n): n rounded to FloatMantissaBits significant bits,
\* ties to even
ToFloat(n) ==
  IF n < 2 ^ FloatMantissaBits THEN n
  ELSE LET unit == 2 ^ (Log2(n) - FloatMantissaBits + 1)
           q    == n \div unit
           rem  == n % unit
       IN  IF 2 * rem > unit \/ (2 * rem = unit /\ q % 2 = 1)
           THEN (q + 1) * unit
           ELSE q * unit

\* if (num_primitives_as_float > std::numeric_limits<float>::max())
TooManyForVariance(count) == ToFloat(count) > FloatMax

\* the numbers of boxes tried: up to MaxExcess more than unsigned int holds
Counts == 0..(UIntMax + MaxExcess)

\* lines 119-142: the empty check and the allocations
ov_Enter ==
  /\ ov.pc = "start"
  /\ ov' = IF IsZeroPrimitives(ov.num_primitives)
           THEN [ov EXCEPT !.pc = "failed"]
           ELSE [ov EXCEPT !.pc = "init_indices", !.i = 0]
  /\ UNCHANGED <<bounding_boxes, bvh, twin, trav, others>>

\* lines 143-145: for (unsigned int i = 0; i < num_primitives; i++)
\*                  m_primitive_indices[i] = i;
\* one test of the condition and, when it holds, one pass of the body and
\* one i++ in unsigned arithmetic
ov_InitIndices ==
  /\ ov.pc = "init_indices"
  /\ ov' = IF ov.i < ov.num_primitives
           THEN [ov EXCEPT
                   !.m_primitive_indices[ov.i] = ov.i,
                   !.i = (ov.i + 1) % (UIntMax + 1),
                   !.wrapped = ov.wrapped \/ ov.i + 1 > UIntMax]
           ELSE [ov EXCEPT !.pc = "root"]
  /\ UNCHANGED <<bounding_boxes, bvh, twin, trav, others>>

\* lines 148-177 for the root, the node with the most primitives: the
\* single-primitive skip and the check before the variance
ov_Root ==
  /\ ov.pc = "root"
  /\ ov' = IF ov.num_primitives = 1 THEN [ov EXCEPT !.pc = "built"]
           ELSE IF TooManyForVariance(ov.num_primitives)
           THEN [ov EXCEPT !.pc = "failed"]
           ELSE [ov EXCEPT !.pc = "splitting"]
  /\ UNCHANGED <<bounding_boxes, bvh, twin, trav, others>>

InitOverflow ==
  /\ bounding_boxes = <<>>
  /\ bvh = Parked
  /\ twin = Parked
  /\ trav = TravIdle
  /\ query = Parked /\ mesh = Parked /\ app = Parked
  /\ \E n \in Counts :
       ov = [pc |-> "start", num_primitives |-> n, i |-> 0, wrapped |-> FALSE,
             m_primitive_indices |-> [k \in 0..(n - 1) |-> NULL]]

NextOverflow == ov_Enter \/ ov_InitIndices \/ ov_Root

SpecOverflow == InitOverflow /\ [][NextOverflow]_vars

(***************************************************************************)
(* Tree structure of the arena                                             *)
(***************************************************************************)
Nodes == bvh.m_pre_allocated_nodes

\* the slots new_node() has handed out
Allocated ==
  IF bvh.m_current_free_node = NULL THEN {}
  ELSE { p \in DOMAIN Nodes : p < bvh.m_current_free_node }

Internal == { p \in Allocated : ~is_leaf(Nodes[p]) }

Leaves == { p \in Allocated : is_leaf(Nodes[p]) }

Range(p) == Nodes[p].first..Nodes[p].last

\* the primitive indices a node's range holds now
Members(p) == { bvh.m_primitive_indices[k] : k \in Range(p) }

Parent(p) == CHOOSE q \in Allocated : Nodes[q].left = p \/ Nodes[q].right = p

MinOf(S) == CHOOSE x \in S : \A y \in S : x <= y

MaxOf(S) == CHOOSE x \in S : \A y \in S : y <= x

\* component-wise min/max union of a non-empty set of boxes
UnionOf(B) ==
  AABB(<<MinOf({b.min[1] : b \in B}), MinOf({b.min[2] : b \in B}), MinOf({b.min[3] : b \in B})>>,
       <<MaxOf({b.max[1] : b \in B}), MaxOf({b.max[2] : b \in B}), MaxOf({b.max[3] : b \in B})>>)

OnStack(p) == \E k \in 1..Len(bvh.stack) : bvh.stack[k] = p

Returned == bvh.pc \in {"done", "failed"}

(***************************************************************************)
(* Claims about the build                                                  *)
(***************************************************************************)
IsPermutation ==
  /\ DOMAIN bvh.m_primitive_indices = Prims
  /\ { bvh.m_primitive_indices[k] : k \in Prims } = Prims

LeavesHolding(i) == { p \in Leaves : i \in Members(p) }

CountPrimitivesDone == trav.pc = "done" /\ trav.op = "count_primitives"

\* C1: for every non-empty input of N boxes, once from_bounding_boxes has
\* returned a tree, m_primitive_indices is a permutation of 0..N-1, every
\* primitive index lies in the range of exactly one leaf, the leaf ranges
\* cover every position exactly once, and count_primitives() returns N.
C1_PrimitivesPartitionedOverLeaves ==
  Built =>
    /\ IsPermutation
    /\ \A i \in Prims : Cardinality(LeavesHolding(i)) = 1
    /\ \A k \in Prims : Cardinality({ p \in Leaves : k \in Range(p) }) = 1
    /\ CountPrimitivesDone => trav.result = NumPrimitives

\* a three-primitive tree whose build reordered the indices and left a leaf
\* of two primitives, counted to the end
C1_Witness ==
  /\ CountPrimitivesDone
  /\ NumPrimitives = 3
  /\ \E k \in Prims : bvh.m_primitive_indices[k] # k
  /\ \E p \in Leaves : num_primitives(Nodes[p]) = 2

\* C2: the AABB of every node the build loop has processed is the
\* component-wise min/max union of the input boxes of the primitive indices
\* now in the node's range, whatever partitions have run since; in the
\* finished tree this holds of every node, and the root's AABB is the union
\* of all input boxes.
C2_NodeAabbIsUnionOfRange ==
  /\ \A p \in Allocated :
       (bvh.pc \in {"build", "done"} /\ ~OnStack(p)) =>
         Nodes[p].aabb = UnionOf({ bounding_boxes[i] : i \in Members(p) })
  /\ Built =>
       /\ \A p \in Allocated : ~OnStack(p)
       /\ Nodes[bvh.m_root].aabb = UnionOf({ bounding_boxes[i] : i \in Prims })

\* a finished tree with an internal node below the root whose range was
\* permuted and whose box is neither that of its first primitive nor the
\* root's
C2_Witness ==
  /\ Built
  /\ \E k \in Prims : bvh.m_primitive_indices[k] # k
  /\ \E p \in Internal \ {bvh.m_root} :
       /\ Nodes[p].aabb # bounding_boxes[bvh.m_primitive_indices[Nodes[p].first]]
       /\ Nodes[p].aabb.min # Nodes[p].aabb.max

\* C3: in every state of the build and in the finished tree, every node has
\* first <= last, and the children of an internal node split its range:
\* left = [first, m - 1], right = [m, last] with first < m <= last.
C3_RangesWellFormed ==
  \A p \in Allocated :
    /\ Nodes[p].first <= Nodes[p].last
    /\ ~is_leaf(Nodes[p]) =>
         LET l == Nodes[p].left
             r == Nodes[p].right
             m == Nodes[r].first
         IN  /\ l \in Allocated /\ r \in Allocated /\ l # r
             /\ Nodes[l].first = Nodes[p].first
             /\ Nodes[l].last = m - 1
             /\ Nodes[r].last = Nodes[p].last
             /\ Nodes[p].first < m /\ m <= Nodes[p].last
             /\ Range(l) \cap Range(r) = {}
             /\ Range(l) \cup Range(r) = Range(p)
             /\ Range(l) # {} /\ Range(r) # {}

\* the build is under way: the root is split and a child of more than one
\* primitive is still waiting on the stack
C3_Witness ==
  /\ bvh.pc = "build"
  /\ ~is_leaf(Nodes[bvh.m_root])
  /\ \E p \in Allocated : OnStack(p) /\ num_primitives(Nodes[p]) >= 2

\* C4: new_node() is called at most 2N-1 times, so m_current_free_node never
\* moves past the end of the arena of 2N-1 nodes.
C4_ArenaNeverOverrun ==
  bvh.result =>
    /\ bvh.arena_size = 2 * NumPrimitives - 1
    /\ bvh.m_current_free_node <= bvh.arena_size
    /\ bvh.pc # "heap_overflow"

\* the arena is used up to its last slot: three primitives, five nodes
C4_Witness ==
  /\ Built
  /\ NumPrimitives = 3
  /\ bvh.m_current_free_node = 5
  /\ bvh.m_current_free_node = bvh.arena_size

\* C5: from_bounding_boxes on an empty list returns no BVH: nothing is
\* allocated, no root is created, no build loop and no traversal runs.
C5_EmptyInputFails ==
  (NumPrimitives = 0 /\ bvh.pc # "start") =>
    /\ bvh.pc = "failed"
    /\ ~bvh.result
    /\ bvh.arena_size = 0
    /\ bvh.m_pre_allocated_nodes = <<>>
    /\ bvh.m_primitive_indices = <<>>
    /\ bvh.m_current_free_node = NULL
    /\ bvh.m_root = NULL
    /\ trav.pc = "idle"

C5_Witness == NumPrimitives = 0 /\ bvh.pc = "failed"

(***************************************************************************)
(* Claims about the traversals                                             *)
(***************************************************************************)
Passes(p) == aabb_filter(trav.filter, Nodes[p].aabb)

\* the filter holds for p and for every ancestor of p
RECURSIVE Survives(_)
Survives(p) ==
  IF p = bvh.m_root THEN Passes(p)
  ELSE Passes(p) /\ Survives(Parent(p))

\* p is looked at: it is the root, or its parent survived
Examined(p) == p = bvh.m_root \/ Survives(Parent(p))

Bit(b) == IF b THEN 1 ELSE 0

\* C9: when foreach_node returns, its callback has run exactly once on a
\* node if the AABB filter holds for the node and all its ancestors, and not
\* at all otherwise; the filter itself has been applied exactly once to the
\* root and to both children of every such node, and never below a node it
\* rejected.  While the traversal runs no node is called or tested twice.
C9_VisitedIffFilterHoldsOnPath ==
  trav.pc \in {"run", "done"} =>
    /\ \A p \in Allocated : trav.visits[p] <= 1 /\ trav.tested[p] <= 1
    /\ \A p \in Allocated : trav.visits[p] = 1 => Survives(p)
    /\ \A p \in Allocated : trav.tested[p] = 1 => Examined(p)
    /\ trav.pc = "done" =>
         \A p \in Allocated :
           /\ trav.visits[p] = Bit(Survives(p))
           /\ trav.tested[p] = Bit(Examined(p))
           /\ trav.leaf_calls[p] =
                Bit(trav.op # "count_nodes" /\ is_leaf(Nodes[p]) /\ Survives(p))

\* a finished traversal in which the filter held on the root, rejected an
\* internal node (whose two children were then never tested) and held on a
\* leaf
C9_Witness ==
  /\ trav.pc = "done"
  /\ Passes(bvh.m_root)
  /\ \E p \in Internal \ {bvh.m_root} :
       /\ ~Passes(p)
       /\ trav.tested[p] = 1
       /\ trav.tested[Nodes[p].left] = 0
  /\ \E q \in Leaves : trav.visits[q] = 1

LeafOf(i) == CHOOSE p \in Leaves : i \in Members(p)

ForeachPrimitiveDone == trav.pc = "done" /\ trav.op = "foreach_primitive"

\* C10: when foreach_primitive returns, the primitive callback has run
\* exactly once for each index i whose leaf survives the AABB filter and for
\* which primitive_filter(i) holds, and not at all for any other index; with
\* both filters constantly true it has run once for every input index.
C10_PrimitiveCalledIffBothFiltersHold ==
  /\ trav.pc \in {"run", "done"} => \A i \in Prims : trav.prim_calls[i] <= 1
  /\ ForeachPrimitiveDone =>
       /\ \A i \in Prims :
            trav.prim_calls[i] =
              Bit(Survives(LeafOf(i)) /\ primitive_filter(trav.pfilter, i))
       /\ (trav.filter = AlwaysTrue /\ trav.pfilter = "true") =>
            \A i \in Prims : trav.prim_calls[i] = 1

\* a finished foreach_primitive that called one index, skipped one whose
\* leaf survived but whose primitive filter failed, and skipped one whose
\* primitive filter held but whose leaf was pruned
C10_Witness ==
  /\ ForeachPrimitiveDone
  /\ \E i \in Prims : trav.prim_calls[i] = 1
  /\ \E i \in Prims : Survives(LeafOf(i)) /\ ~primitive_filter(trav.pfilter, i)
  /\ \E i \in Prims : ~Survives(LeafOf(i)) /\ primitive_filter(trav.pfilter, i)
  /\ \E p \in Leaves : Survives(p) /\ num_primitives(Nodes[p]) = 2

(***************************************************************************)
(* Claims about two builds of one input                                    *)
(***************************************************************************)
HasReturned(s) == s.pc \in {"done", "failed"}

\* what a build leaves behind, the slots it never handed out aside
TreeOf(s) ==
  [returned |-> s.pc,
   result |-> s.result,
   root |-> s.m_root,
   free |-> s.m_current_free_node,
   indices |-> s.m_primitive_indices,
   nodes |-> [p \in { q \in DOMAIN s.m_pre_allocated_nodes : q < s.m_current_free_node }
                |-> s.m_pre_allocated_nodes[p]]]

\* C7: two builds from the same list of boxes, each in its own freshly
\* allocated arena, return the same tree: the same nodes with the same
\* children, ranges and AABBs, and the same final permutation of the
\* primitive indices.
C7_BuildIsDeterministic ==
  (twin.pc # "off" /\ HasReturned(bvh) /\ HasReturned(twin)) =>
    TreeOf(bvh) = TreeOf(twin)

\* both builds of a three-primitive input are finished, with five nodes and
\* a reordered index array
C7_Witness ==
  /\ twin.pc = "done" /\ bvh.pc = "done"
  /\ NumPrimitives = 3
  /\ twin.m_current_free_node = 5
  /\ \E k \in Prims : twin.m_primitive_indices[k] # k

(***************************************************************************)
(* Claims about the widths of the counters                                 *)
(***************************************************************************)
\* C6: a build of more primitives than the unsigned index counter can count
\* never lets that counter wrap around: it has failed, or is still short of
\* the wrap.
C6_CounterNeverWraps ==
  (ov.pc # "off" /\ ov.num_primitives > UIntMax) => ~ov.wrapped

(***************************************************************************)
(* Claims about termination                                                *)
(***************************************************************************)
\* C8: the build loop always comes to an end (from_bounding_boxes returns,
\* its stack empty), also when every partition degenerates, and every
\* traversal of the finished tree that has started comes to an end.
C8_BuildAndTraversalsTerminate ==
  /\ <>(HasReturned(bvh) /\ bvh.stack = <<>>)
  /\ [](trav.pc = "run" => <>(trav.pc = "done" /\ trav.stack = <<>>))

\* three equal boxes: the root's partition degenerated, it stayed a leaf of
\* three, and a traversal of that tree has finished
C8_Witness ==
  /\ NumPrimitives = 3
  /\ \A i \in Prims : bounding_boxes[i] = bounding_boxes[0]
  /\ Built
  /\ num_primitives(Nodes[bvh.m_root]) = 3 /\ is_leaf(Nodes[bvh.m_root])
  /\ trav.pc = "done"

(***************************************************************************)
(* ray_aabb_intersection                                                   *)
(* A slab parameter (aabb.min[i] - origin[i]) / direction[i] is kept       *)
(* multiplied by TScale, a common multiple of the direction components     *)
(* tried, so that it is an exact integer; Infinity stands for the float    *)
(* +infinity and is larger than every parameter that can occur.            *)
(***************************************************************************)
MaxDirection == 2

\* MaxDirection!, a multiple of every direction component tried
RECURSIVE Factorial(_)
Factorial(n) == IF n <= 1 THEN 1 ELSE n * Factorial(n - 1)

TScale == Factorial(MaxDirection)

Infinity == 1000

Ray(origin, direction) == [origin |-> origin, direction |-> direction]

\* is_close(x, 0): abs(x - 0) <= 1e-5f * abs(x), which holds for x = 0 only
is_close_to_zero(x) == x = 0

\* the smallest of the first two components only
min_component_xy(v) == Min2(v[1], v[2])

min_component(v) == Min2(v[1], Min2(v[2], v[3]))

\* std::max(v.x, std::min(v.y, v.z))
max_component(v) == Max2(v[1], Min2(v[2], v[3]))

is_not_all_zeros(v) == \E i \in 1..3 : v[i] # 0

\* (bound - origin) / direction on one axis, times TScale
SlabParameter(bound, origin, direction) ==
  ((bound - origin) * TScale) \div direction

\* lines 913-921: t_slab_min[i] and t_slab_max[i] after the loop
t_slab_min(ray, aabb) ==
  [i \in 1..3 |->
     IF is_close_to_zero(ray.direction[i]) THEN 0
     ELSE Min2(SlabParameter(aabb.min[i], ray.origin[i], ray.direction[i]),
               SlabParameter(aabb.max[i], ray.origin[i], ray.direction[i]))]

\* std::minmax left out: the parameter of aabb.max taken as the exit
t_slab_max_unsorted(ray, aabb) ==
  [i \in 1..3 |->
     IF is_close_to_zero(ray.direction[i]) THEN Infinity
     ELSE SlabParameter(aabb.max[i], ray.origin[i], ray.direction[i])]

t_slab_max(ray, aabb) ==
  [i \in 1..3 |->
     IF is_close_to_zero(ray.direction[i]) THEN Infinity
     ELSE Max2(SlabParameter(aabb.min[i], ray.origin[i], ray.direction[i]),
               SlabParameter(aabb.max[i], ray.origin[i], ray.direction[i]))]

\* lines 908-925; the value returned, times TScale
ray_aabb_intersection(ray, aabb) ==
  LET t_min == Max2(max_component(t_slab_min(ray, aabb)), 0)
      t_max == min_component(t_slab_max(ray, aabb))
  IN  Min2(t_min, t_max)

RayOriginCoordinates == { -3, -1, 0, 2 }

RayDirectionCoordinates == (-MaxDirection)..MaxDirection

RayBoxes ==
  { AABB(Vec3(-1, -1, -1), Vec3(1, 1, 1)),
    AABB(Vec3(0, -1, -1), Vec3(2, 1, 0)) }

\* the rays tried; line 909: assert(is_not_all_zeros(ray.direction))
Rays ==
  { r \in { Ray(o, d) :
              o \in RayOriginCoordinates \X RayOriginCoordinates \X RayOriginCoordinates,
              d \in RayDirectionCoordinates \X RayDirectionCoordinates \X RayDirectionCoordinates } :
      is_not_all_zeros(r.direction) }

\* a caller evaluates ray_aabb_intersection(ray, aabb); t is the value
\* returned, times TScale
ray_aabb_call ==
  /\ query.pc = "ray_aabb"
  /\ query' = [query EXCEPT !.pc = "returned",
                            !.t = ray_aabb_intersection(query.ray, query.aabb)]
  /\ UNCHANGED <<bounding_boxes, bvh, twin, trav, ov, mesh, app>>

InitRayAabb ==
  /\ bounding_boxes = <<>>
  /\ bvh = Parked /\ twin = Parked /\ trav = TravIdle /\ ov = Parked
  /\ mesh = Parked /\ app = Parked
  /\ \E r \in Rays, b \in RayBoxes :
       query = [pc |-> "ray_aabb", ray |-> r, aabb |-> b, t |-> 0]

NextRayAabb == ray_aabb_call

SpecRayAabb == InitRayAabb /\ [][NextRayAabb]_vars

(***************************************************************************)
(* Claims about ray_aabb_intersection                                      *)
(***************************************************************************)
RayAabbReturned == query.pc = "returned"

\* the caller's test of the result (ray_aabb_intersection(...) >= 0.0f)
ReportsHit == query.t >= 0

\* max(0, the largest slab entry parameter over the three axes), and the
\* smallest slab exit parameter over the three axes, times TScale
LargestEntry ==
  Max2(0, MaxOf({ t_slab_min(query.ray, query.aabb)[i] : i \in 1..3 }))

SmallestExit == MinOf({ t_slab_max(query.ray, query.aabb)[i] : i \in 1..3 })

\* C11: for every ray with a non-zero direction and every box, the call
\* reports an intersection exactly when max(0, largest slab entry over all
\* three axes) <= smallest slab exit, and the distance it then returns is
\* that max(0, largest slab entry).
C11_HitIffEntryBeforeExit ==
  RayAabbReturned =>
    /\ ReportsHit <=> LargestEntry <= SmallestExit
    /\ ReportsHit => query.t = LargestEntry

OriginInside ==
  \A i \in 1..3 :
    query.aabb.min[i] <= query.ray.origin[i] /\ query.ray.origin[i] <= query.aabb.max[i]

\* on some axis the origin is outside the box and the direction leads
\* further away from it
PointsAway ==
  \E i \in 1..3 :
    \/ query.ray.origin[i] < query.aabb.min[i] /\ query.ray.direction[i] < 0
    \/ query.ray.origin[i] > query.aabb.max[i] /\ query.ray.direction[i] > 0

\* C12: a ray whose origin is inside the box or on its boundary gets a hit
\* at distance 0, whatever its direction; a ray whose origin is outside the
\* box on some axis and moves away from the box on that axis gets a negative
\* result, that is no hit.
C12_InsideHitsAtZeroAwayMisses ==
  RayAabbReturned =>
    /\ OriginInside => query.t = 0
    /\ PointsAway => query.t < 0

\* a ray starting on a face of the box and leaving it through that face,
\* answered with distance 0
C12_Witness ==
  /\ RayAabbReturned
  /\ query.ray.origin[1] = query.aabb.min[1] /\ query.ray.direction[1] < 0
  /\ query.ray.direction[2] # 0 /\ query.ray.direction[3] # 0
  /\ OriginInside
  /\ query.t = 0

(***************************************************************************)
(* ray_intersects_triangle_non_coplanar                                    *)
(* Lengths are integers in units of 1 / GridPerUnit.  The epsilon of the   *)
(* code is 1 / EpsDen, scaled up so that triangles on the grid fall on     *)
(* both sides of it.  A ray direction is a unit vector; it is kept as an   *)
(* integer vector D with its squared length L2, the direction being        *)
(* D / sqrt(L2), and every comparison of the code is made on exact         *)
(* integers after multiplying out the denominators (squaring where         *)
(* sqrt(L2) is involved).                                                  *)
(***************************************************************************)
GridPerUnit == 12

EpsDen == 8

Triangle(a, b, c) == <<a, b, c>>

Sub(u, v) == <<u[1] - v[1], u[2] - v[2], u[3] - v[3]>>

Add(u, v) == <<u[1] + v[1], u[2] + v[2], u[3] + v[3]>>

Scale(k, v) == <<k * v[1], k * v[2], k * v[3]>>

Dot(u, v) == u[1] * v[1] + u[2] * v[2] + u[3] * v[3]

Cross(u, v) ==
  <<u[2] * v[3] - u[3] * v[2], u[3] * v[1] - u[1] * v[3], u[1] * v[2] - u[2] * v[1]>>

Abs(x) == IF x < 0 THEN -x ELSE x

Sign(x) == IF x < 0 THEN -1 ELSE IF x > 0 THEN 1 ELSE 0

\* glm::normalize(v): the unit vector v / sqrt(Dot(v, v))
UnitRay(origin, D) == [origin |-> origin, direction |-> D, length2 |-> Dot(D, D)]

\* line 19: std::abs(det) < epsilon, det = Dd / (sqrt(L2) * GridPerUnit^2)
\* compared as Dd^2 < L2 * GridPerUnit^4 / EpsDen^2, the quotient rounded up
DetTooSmall(Dd, L2) ==
  LET bound == L2 * GridPerUnit * GridPerUnit * GridPerUnit * GridPerUnit
      eps2  == EpsDen * EpsDen
  IN  Dd * Dd < (bound + eps2 - 1) \div eps2

\* line 34: t < -epsilon, t = sqrt(L2) * Nt / (Dd * GridPerUnit); as
\* sqrt(L2) >= 1, a t with |Nt| * EpsDen > |Dd| * GridPerUnit is below the
\* band whatever L2 is, and the squares are compared for the others
TBelowBand(Nt, Dd, L2) ==
  IF Sign(Nt) * Sign(Dd) >= 0 THEN FALSE
  ELSE IF Abs(Nt) * EpsDen > Abs(Dd) * GridPerUnit THEN TRUE
  ELSE Nt * Nt * EpsDen * EpsDen > (Dd * Dd * GridPerUnit * GridPerUnit) \div L2

\* u < 0, with no tolerance
BelowBand_no_tolerance(Un, Dd) == Un * Sign(Dd) < 0

\* lines 37 and 40: u < -epsilon, u = Un / Dd
BelowBand(Un, Dd) == Un * Sign(Dd) * EpsDen < -Abs(Dd)

\* u + v >= 1, with no tolerance
AboveBand_no_tolerance(Sn, Dd) == Sn * Sign(Dd) >= Abs(Dd)

\* line 42: (u + v) > (1.0f + epsilon), u + v = Sn / Dd
AboveBand(Sn, Dd) == Sn * Sign(Dd) * EpsDen > Abs(Dd) * (EpsDen + 1)

\* lines 10-45, with the cofactors taken on D instead of D / sqrt(L2)
ray_intersects_triangle_non_coplanar(ray, triangle) ==
  LET ab  == Sub(triangle[2], triangle[1])
      ac  == Sub(triangle[3], triangle[1])
      D   == ray.direction
      c11 == ab[2] * ac[3] - ab[3] * ac[2]
      c21 == ab[3] * ac[1] - ab[1] * ac[3]
      c31 == ab[1] * ac[2] - ab[2] * ac[1]
      det == D[1] * c11 + D[2] * c21 + D[3] * c31
      c12 == D[2] * ac[3] - D[3] * ac[2]
      c22 == D[3] * ac[1] - D[1] * ac[3]
      c32 == D[1] * ac[2] - D[2] * ac[1]
      c13 == D[3] * ab[2] - D[2] * ab[3]
      c23 == D[1] * ab[3] - D[3] * ab[1]
      c33 == D[2] * ab[1] - D[1] * ab[2]
      c   == Sub(triangle[1], ray.origin)
      t   == c11 * c[1] + c21 * c[2] + c31 * c[3]
      u   == c12 * c[1] + c22 * c[2] + c32 * c[3]
      v   == c13 * c[1] + c23 * c[2] + c33 * c[3]
  IN  IF DetTooSmall(det, ray.length2) THEN FALSE
      ELSE IF TBelowBand(t, det, ray.length2) THEN FALSE
      ELSE IF BelowBand(u, det) THEN FALSE
      ELSE IF BelowBand(v, det) THEN FALSE
      ELSE IF AboveBand(u + v, det) THEN FALSE
      ELSE TRUE

\* The triangles tried lie in the plane z = 0 on a grid of step 3, so that
\* the centroid is on the grid and the unit normal is (0, 0, 1) or (0, 0, -1).
TriangleCoordinates == { 0, 3, 6, 9 }

TrianglePoints == { Vec3(x, y, 0) : x \in TriangleCoordinates, y \in TriangleCoordinates }

TriangleNormal(triangle) ==
  Cross(Sub(triangle[2], triangle[1]), Sub(triangle[3], triangle[1]))

Triangles ==
  { tr \in TrianglePoints \X TrianglePoints \X TrianglePoints :
      TriangleNormal(tr) # Vec3(0, 0, 0) }

\* line 63: center = (v0 + v1 + v2) / 3.0f
Center(triangle) ==
  LET sum == Add(triangle[1], Add(triangle[2], triangle[3]))
  IN  <<sum[1] \div 3, sum[2] \div 3, sum[3] \div 3>>

\* lines 61-62: glm::normalize(glm::cross(v1 - v0, v2 - v0)), of length 1,
\* that is GridPerUnit steps, along z
UnitNormal(triangle) == Vec3(0, 0, GridPerUnit * Sign(TriangleNormal(triangle)[3]))

\* line 64: ray_origin = center + normal
RayOrigin(triangle) == Add(Center(triangle), UnitNormal(triangle))

\* line 82: v = (v - center) * 2.0f + center
ScaledVertex(triangle, k) ==
  Add(Scale(2, Sub(triangle[k], Center(triangle))), Center(triangle))

\* lines 68, 75 and 83: the ray of each kind of test
TestRay(triangle, aim, k) ==
  CASE aim = "vertex" ->
         UnitRay(RayOrigin(triangle), Sub(triangle[k], RayOrigin(triangle)))
    [] aim = "inverse_normal" ->
         UnitRay(RayOrigin(triangle), Scale(-1, UnitNormal(triangle)))
    [] aim = "scaled_vertex" ->
         UnitRay(RayOrigin(triangle), Sub(ScaledVertex(triangle, k), RayOrigin(triangle)))
    [] aim = "normal" ->
         UnitRay(RayOrigin(triangle), UnitNormal(triangle))
    [] aim = "opposite_corner" ->
         UnitRay(RayOrigin(triangle),
                 Add(Sub(triangle[2], RayOrigin(triangle)), Sub(triangle[3], triangle[1])))
    [] aim = "past_vertex" ->
         UnitRay(RayOrigin(triangle),
                 Add(Scale(EpsDen + 1, Sub(triangle[k], RayOrigin(triangle))),
                     Sub(triangle[k], triangle[(k % 3) + 1])))

\* besides the rays of the test: the ray along the normal, away from the
\* triangle, and the rays that pass vertex k on the outside, beyond it by
\* 1 / (EpsDen + 1) of the edge from the next vertex, and the ray to
\* b + c - a, the corner opposite a of the parallelogram on the triangle
Aims ==
  ({"vertex", "scaled_vertex", "past_vertex"} \X (1..3))
    \cup {<<"inverse_normal", 1>>, <<"normal", 1>>, <<"opposite_corner", 1>>}

\* one call of the test loop: ray_intersects_triangle_non_coplanar(ray, triangle)
ray_triangle_call ==
  /\ query.pc = "ray_triangle"
  /\ query' = [query EXCEPT
                 !.pc = "returned_triangle",
                 !.hit = ray_intersects_triangle_non_coplanar(query.ray, query.triangle)]
  /\ UNCHANGED <<bounding_boxes, bvh, twin, trav, ov, mesh, app>>

InitRayTriangle ==
  /\ bounding_boxes = <<>>
  /\ bvh = Parked /\ twin = Parked /\ trav = TravIdle /\ ov = Parked
  /\ mesh = Parked /\ app = Parked
  /\ \E tr \in Triangles, a \in Aims :
       query = [pc |-> "ray_triangle", triangle |-> tr, aim |-> a[1], k |-> a[2],
                ray |-> TestRay(tr, a[1], a[2]), hit |-> FALSE]

NextRayTriangle == ray_triangle_call

SpecRayTriangle == InitRayTriangle /\ [][NextRayTriangle]_vars

(***************************************************************************)
(* Claims about ray_intersects_triangle_non_coplanar                       *)
(***************************************************************************)
RayTriangleReturned == query.pc = "returned_triangle"

AimedAtTriangle == query.aim \in {"vertex", "inverse_normal"}

\* C13 as stated: for every non-degenerate triangle and the ray origin
\* centroid + unit normal, the rays aimed at the three vertices and the ray
\* along the inverse normal hit, and the rays aimed at the vertices of the
\* triangle scaled by 2 about its centroid miss.
C13_VertexRaysHitScaledMiss ==
  RayTriangleReturned =>
    /\ AimedAtTriangle => query.hit
    /\ query.aim = "scaled_vertex" => ~query.hit

\* twice the area of the triangle is at least epsilon times the distance
\* from the ray origin to the point aimed at (squared, in grid steps)
AreaAboveEpsilon ==
  LET n == TriangleNormal(query.triangle)
  IN  EpsDen * EpsDen * Dot(n, n) >= GridPerUnit * GridPerUnit * query.ray.length2

\* C13 amended: the rays aimed at the three vertices and along the inverse
\* normal hit when twice the triangle's area is at least epsilon times the
\* length of the ray to its target (so that |det| >= epsilon), and the rays
\* aimed at the vertices of the scaled triangle miss for every
\* non-degenerate triangle.
C13_HitWhenAreaAboveEpsilon ==
  RayTriangleReturned =>
    /\ (AimedAtTriangle /\ AreaAboveEpsilon) => query.hit
    /\ query.aim = "scaled_vertex" => ~query.hit

\* a ray aimed at the third vertex of a triangle large enough, and hitting
C13_Witness ==
  /\ RayTriangleReturned
  /\ query.aim = "vertex" /\ query.k = 3
  /\ AreaAboveEpsilon
  /\ query.hit

(***************************************************************************)
(* Indexed_Triangle_Mesh_Object: the mesh import                           *)
(* Positions are integers in units of the weld tolerance (range), so that  *)
(* range * range is 1.  A std::vector is a function on 0..size-1.  The     *)
(* import works on the flat list of the triangles' vertices; vertex i of   *)
(* the list is vertex i % 3 of triangle i / 3.                             *)
(***************************************************************************)
MaxTriangles == 2

range == 1

VectorOf(seq) == [i \in 0..(Len(seq) - 1) |-> seq[i + 1]]

Size(vec) == Cardinality(DOMAIN vec)

push_back(vec, x) == [i \in 0..Size(vec) |-> IF i = Size(vec) THEN x ELSE vec[i]]

\* lines 50-59: every vertex as a bounding box of its own
vertices_as_bounding_boxes(vertices) ==
  [i \in DOMAIN vertices |-> AABB(vertices[i], vertices[i])]

\* the BVH constructor: from_bounding_boxes run to its end
RECURSIVE RunBuild(_, _)
RunBuild(bb, s) == IF s.pc = "build" THEN RunBuild(bb, Iteration(bb, s)) ELSE s

make_shared_BVH(bb) == RunBuild(bb, Setup(bb, 1))

\* a sphere of no radius around the vertex
WeldSphere_point(v) == Sphere(v, 0)

\* line 94: Sphere sphere{.center = unique_vertex, .radius = range}
WeldSphere(v) == Sphere(v, range)

\* the filter without the vertices at exactly the range
WithinRange_strict(u, v) == distance2(u, v) < range * range

\* lines 106-108: glm::distance2(unique_vertex, candidate) <= (range * range)
WithinRange(u, v) == distance2(u, v) <= range * range

\* line 109: bvh->foreach_primitive(callback, aabb_filter, primitive_filter)
\* on the tree built; the set of vertex indices the callback is called with
RECURSIVE foreach_duplicate(_, _, _, _, _)
foreach_duplicate(tree, vertices, v, stack, called) ==
  IF stack = <<>> THEN called
  ELSE LET top    == Len(stack)
           node   == tree.m_pre_allocated_nodes[stack[top]]
           passes == aabb_filter(WeldSphere(v), node.aabb)
           found  == { tree.m_primitive_indices[k] : k \in node.first..node.last }
       IN  foreach_duplicate(
             tree, vertices, v,
             Push(SubSeq(stack, 1, top - 1), node, passes),
             IF passes /\ is_leaf(node)
             THEN called \cup { d \in found : WithinRange(v, vertices[d]) }
             ELSE called)

\* line 111: final_unique_vertex_index++
NextUniqueIndex(k) == k + 1

\* lines 72-75: the state of the welding loop before its first iteration
WeldStart(vertices) ==
  [indices |-> [i \in DOMAIN vertices |-> 0],
   is_remapped_vec |-> [i \in DOMAIN vertices |-> FALSE],
   unique_vertices |-> <<>>,
   final_unique_vertex_index |-> 0]

\* the callback forgetting to mark what it remaps
RemapAll_unmarked(w, called) ==
  [w EXCEPT
     !.indices = [i \in DOMAIN @ |->
                    IF i \in called /\ ~w.is_remapped_vec[i]
                    THEN w.final_unique_vertex_index ELSE @[i]]]

\* lines 96-102: duplicate_vertex_callback on every index in called
RemapAll(w, called) ==
  [w EXCEPT
     !.indices = [i \in DOMAIN @ |->
                    IF i \in called /\ ~w.is_remapped_vec[i]
                    THEN w.final_unique_vertex_index ELSE @[i]],
     !.is_remapped_vec = [i \in DOMAIN @ |-> @[i] \/ i \in called]]

\* lines 87-113: the welding loop from original_unique_vertex_index = i on
RECURSIVE WeldLoop(_, _, _, _)
WeldLoop(tree, vertices, i, w) ==
  IF i >= Size(vertices) THEN w
  ELSE IF w.is_remapped_vec[i] THEN WeldLoop(tree, vertices, i + 1, w)
  ELSE LET called == foreach_duplicate(tree, vertices, vertices[i], <<tree.m_root>>, {})
           welded == RemapAll(w, called)
       IN  WeldLoop(tree, vertices, i + 1,
                    [welded EXCEPT
                       !.final_unique_vertex_index = NextUniqueIndex(@),
                       !.unique_vertices = push_back(@, vertices[i])])

\* the welded triangle t: unique_vertices[indices[i + 0..2]], i = 3 * t
WeldedTriangle(w, t) ==
  <<w.unique_vertices[w.indices[3 * t]],
    w.unique_vertices[w.indices[3 * t + 1]],
    w.unique_vertices[w.indices[3 * t + 2]]>>

NumTriangles(w) == Size(w.indices) \div 3

\* lines 124-140: the normal of a vertex, kept as the sum of the cross
\* products of the triangles it belongs to, once per corner; the weights
\* and the normalisation are left out
RECURSIVE SumNormals(_, _, _, _)
SumNormals(w, vi, i, acc) ==
  IF i >= Size(w.indices) THEN acc
  ELSE SumNormals(w, vi, i + 1,
         IF w.indices[i] = vi
         THEN Add(acc, TriangleNormal(WeldedTriangle(w, i \div 3)))
         ELSE acc)

vertex_normals(w) ==
  [vi \in DOMAIN w.unique_vertices |-> SumNormals(w, vi, 0, Vec3(0, 0, 0))]

sizeof_vec3 == 12

sizeof_unsigned_int == 4

IntMax == 2 ^ (UIntBits - 1) - 1

\* line 142: unique_vertices.size() > UINT_MAX / sizeof(glm::vec3)
TooManyVertices(n) == n > UIntMax \div sizeof_vec3

\* line 147: indices.size() > INT_MAX / sizeof(unsigned int)
TooManyIndices(n) == n > IntMax \div sizeof_unsigned_int

\* lines 190-199: the bounding box of every welded triangle
triangle_bounding_boxes(w) ==
  [t \in 0..(NumTriangles(w) - 1) |->
     LET tr == WeldedTriangle(w, t)
     IN  AABB(glm_min(tr[1], glm_min(tr[2], tr[3])),
              glm_max(tr[1], glm_max(tr[2], tr[3])))]

\* one area per index instead of one per triangle
triangle_areas_per_index(w) ==
  [t \in 0..(Size(w.indices) - 1) |->
     LET n == TriangleNormal(WeldedTriangle(w, t \div 3)) IN Dot(n, n)]

\* lines 208-218: the area of every welded triangle, kept as the square of
\* twice the area, length(cross(ab, ac))^2
triangle_areas(w) ==
  [t \in 0..(NumTriangles(w) - 1) |->
     LET n == TriangleNormal(WeldedTriangle(w, t)) IN Dot(n, n)]

\* a rejected import that keeps the list it was given
NoMesh_keeps_vertices(vertices, pc, error) ==
  [pc |-> pc, error |-> error, vertices |-> vertices,
   m_vertices |-> vertices, m_indices |-> <<>>, m_vertex_normals |-> <<>>,
   m_triangle_areas |-> <<>>, m_triangles_bvh |-> NotBuilt]

\* lines 42-44, object.cpp lines 29-36: no object comes out of the call
NoMesh(vertices, pc, error) ==
  [pc |-> pc, error |-> error, vertices |-> vertices,
   m_vertices |-> <<>>, m_indices |-> <<>>, m_vertex_normals |-> <<>>,
   m_triangle_areas |-> <<>>, m_triangles_bvh |-> NotBuilt]

\* lines 46-218: the constructor past the empty check, on the welding w
StoreMesh(vertices, w) ==
  IF TooManyVertices(Size(w.unique_vertices)) \/ TooManyIndices(Size(w.indices))
  THEN NoMesh(vertices, "threw", "Overflow_Check_Error")
  ELSE [pc |-> "built", error |-> "", vertices |-> vertices,
        m_vertices |-> w.unique_vertices,
        m_indices |-> w.indices,
        m_vertex_normals |-> vertex_normals(w),
        m_triangle_areas |-> triangle_areas(w),
        m_triangles_bvh |-> make_shared_BVH(triangle_bounding_boxes(w))]

Weld(vertices) ==
  WeldLoop(make_shared_BVH(vertices_as_bounding_boxes(vertices)), vertices, 0,
           WeldStart(vertices))

\* object.cpp line 33: (triangle_mesh_vertices.size() % 3) != 0
IsMisaligned(n) == n % 3 # 0

\* lines 39-219: the constructor on the vertices of its triangles
ConstructMesh(vertices) ==
  IF IsZeroPrimitives(Size(vertices))
  THEN NoMesh(vertices, "threw", "Empty mesh")
  ELSE CHOOSE built \in { StoreMesh(vertices, w) : w \in { Weld(vertices) } } : TRUE

\* lines 39-219: Indexed_Triangle_Mesh_Object(triangles, model_matrix)
Indexed_Triangle_Mesh_Object ==
  /\ mesh.pc = "constructor"
  /\ mesh' = ConstructMesh(mesh.vertices)
  /\ UNCHANGED <<bounding_boxes, bvh, twin, trav, ov, query, app>>

\* object.cpp lines 38-191: from_triangles past its two checks; an Object
\* keeps no triangle areas
StoreObject(vertices, w) ==
  IF TooManyVertices(Size(w.unique_vertices)) \/ TooManyIndices(Size(w.indices))
  THEN NoMesh(vertices, "returned_null", "Aborting GPU mesh creation")
  ELSE [pc |-> "returned_object", error |-> "", vertices |-> vertices,
        m_vertices |-> w.unique_vertices,
        m_indices |-> w.indices,
        m_vertex_normals |-> vertex_normals(w),
        m_triangle_areas |-> <<>>,
        m_triangles_bvh |-> make_shared_BVH(triangle_bounding_boxes(w))]

\* object.cpp lines 27-36 and on: Object::from_triangles(vertices, model)
Object_from_triangles ==
  /\ mesh.pc = "from_triangles"
  /\ mesh' = IF IsZeroPrimitives(Size(mesh.vertices))
             THEN NoMesh(mesh.vertices, "returned_null", "Empty mesh")
             ELSE IF IsMisaligned(Size(mesh.vertices))
             THEN NoMesh(mesh.vertices, "returned_null",
                         "Vertices do not make up a whole number of triangles")
             ELSE CHOOSE built \in { StoreObject(mesh.vertices, w) : w \in { Weld(mesh.vertices) } } : TRUE
  /\ UNCHANGED <<bounding_boxes, bvh, twin, trav, ov, query, app>>

\* positions in units of range
MeshTriangles ==
  { <<Vec3(0, 0, 0), Vec3(4, 0, 0), Vec3(0, 4, 0)>>,
    <<Vec3(4, 0, 0), Vec3(4, 4, 0), Vec3(0, 4, 0)>>,
    <<Vec3(0, 0, 0), Vec3(1, 0, 0), Vec3(2, 0, 0)>>,
    <<Vec3(0, 0, 0), Vec3(1, 0, 0), Vec3(0, 4, 0)>>,
    <<Vec3(2, 0, 0), Vec3(4, 4, 0), Vec3(0, 0, 4)>>,
    <<Vec3(8, 0, 0), Vec3(8, 4, 0), Vec3(8, 0, 4)>>,
    <<Vec3(0, 0, 0), Vec3(0, 0, 0), Vec3(0, 4, 0)>> }

\* the triangles of a list laid out as one flat list of vertices
RECURSIVE Flatten(_)
Flatten(triangles) ==
  IF triangles = <<>> THEN <<>>
  ELSE Head(triangles) \o Flatten(Tail(triangles))

TriangleLists == UNION { [1..n -> MeshTriangles] : n \in 0..MaxTriangles }

\* lists of vertices that stop inside a triangle
MisalignedLists ==
  { SubSeq(Flatten(l), 1, Len(l) * 3 - cut) :
      l \in { k \in TriangleLists : Len(k) >= 1 }, cut \in {1, 2} }

InitMesh ==
  /\ bounding_boxes = <<>> /\ bvh = Parked /\ twin = Parked /\ trav = TravIdle
  /\ ov = Parked /\ query = Parked /\ app = Parked
  /\ \/ \E l \in TriangleLists :
          mesh = NoMesh(VectorOf(Flatten(l)), "constructor", "")
     \/ \E l \in { Flatten(t) : t \in TriangleLists } \cup MisalignedLists :
          mesh = NoMesh(VectorOf(l), "from_triangles", "")

NextMesh == Indexed_Triangle_Mesh_Object \/ Object_from_triangles

SpecMesh == InitMesh /\ [][NextMesh]_vars

(***************************************************************************)
(* Claims on the mesh import                                               *)
(***************************************************************************)
MeshBuilt == mesh.pc = "built"

MeshStored == mesh.pc \in {"built", "returned_object"}

MeshFinished == mesh.pc \in {"built", "threw", "returned_object", "returned_null"}

\* C14: every mesh the constructor builds has 3 indices per input triangle,
\* every index below the number of vertices, one normal per vertex and one
\* area per triangle
C14_MeshInvariants ==
  MeshBuilt =>
    /\ Size(mesh.m_indices) % 3 = 0
    /\ Size(mesh.m_indices) = 3 * (Size(mesh.vertices) \div 3)
    /\ Size(mesh.vertices) % 3 = 0
    /\ \A i \in DOMAIN mesh.m_indices : mesh.m_indices[i] < Size(mesh.m_vertices)
    /\ Size(mesh.m_vertex_normals) = Size(mesh.m_vertices)
    /\ 3 * Size(mesh.m_triangle_areas) = Size(mesh.m_indices)

C14_Witness ==
  /\ MeshBuilt
  /\ Size(mesh.m_indices) = 6
  /\ Size(mesh.m_vertices) = 3
  /\ Size(mesh.m_triangle_areas) = 2

Positions(vertices) == { vertices[i] : i \in DOMAIN vertices }

WellSeparated(vertices) ==
  \A u \in Positions(vertices), v \in Positions(vertices) :
    u # v => distance2(u, v) > range * range

\* C15: when all distinct positions are farther apart than the tolerance,
\* the stored mesh has one vertex per distinct position, every raw vertex
\* is mapped to the vertex of its own position, and equal positions share
\* an index
C15_OneVertexPerPosition ==
  (MeshStored /\ WellSeparated(mesh.vertices)) =>
    /\ Size(mesh.m_vertices) = Cardinality(Positions(mesh.vertices))
    /\ Size(mesh.m_indices) = Size(mesh.vertices)
    /\ \A i \in DOMAIN mesh.vertices :
         mesh.m_vertices[mesh.m_indices[i]] = mesh.vertices[i]
    /\ \A i \in DOMAIN mesh.vertices, j \in DOMAIN mesh.vertices :
         mesh.vertices[i] = mesh.vertices[j] => mesh.m_indices[i] = mesh.m_indices[j]

\* two triangles sharing an edge
C15_Witness ==
  /\ MeshBuilt
  /\ mesh.vertices = VectorOf(<<Vec3(0, 0, 0), Vec3(4, 0, 0), Vec3(0, 4, 0),
                                Vec3(4, 0, 0), Vec3(4, 4, 0), Vec3(0, 4, 0)>>)
  /\ WellSeparated(mesh.vertices)
  /\ Size(mesh.m_vertices) = 4
  /\ Size(mesh.m_indices) = 6
  /\ Size(mesh.m_triangle_areas) = 2

\* the brute-force greedy pass from vertex i on: g.indices the index given to
\* every vertex (NULL while it has none), g.unique the unique vertices so far
RECURSIVE Greedy(_, _, _)
Greedy(vertices, i, g) ==
  IF i >= Size(vertices) THEN g
  ELSE IF g.indices[i] # NULL THEN Greedy(vertices, i + 1, g)
  ELSE Greedy(vertices, i + 1,
         [indices |->
            [d \in DOMAIN vertices |->
               IF g.indices[d] = NULL
                  /\ distance2(vertices[i], vertices[d]) <= range * range
               THEN Size(g.unique) ELSE g.indices[d]],
          unique |-> push_back(g.unique, vertices[i])])

GreedyPass(vertices) ==
  Greedy(vertices, 0, [indices |-> [d \in DOMAIN vertices |-> NULL], unique |-> <<>>])

\* C16: the stored indices and vertices are those of the brute-force greedy
\* pass, which gives a vertex the index of the first earlier unique vertex
\* within the tolerance and never merges through a chain
C16_WeldingIsGreedy ==
  MeshStored =>
    /\ mesh.m_indices = GreedyPass(mesh.vertices).indices
    /\ mesh.m_vertices = GreedyPass(mesh.vertices).unique

\* A, B, C in that order, AB and BC within the tolerance, AC beyond it
C16_Witness ==
  /\ MeshStored
  /\ distance2(mesh.vertices[0], mesh.vertices[1]) <= range * range
  /\ distance2(mesh.vertices[1], mesh.vertices[2]) <= range * range
  /\ distance2(mesh.vertices[0], mesh.vertices[2]) > range * range
  /\ mesh.m_indices[0] = mesh.m_indices[1]
  /\ mesh.m_indices[2] # mesh.m_indices[0]

BadVertexList(vertices) == Size(vertices) = 0 \/ Size(vertices) % 3 # 0

\* C17: an empty list, or one that is not a whole number of triangles, ends
\* the import with an error and nothing stored: no vertices, no indices, no
\* normals, no areas and no BVH
C17_BadListRejected ==
  (MeshFinished /\ BadVertexList(mesh.vertices)) =>
    /\ mesh.pc \in {"threw", "returned_null"}
    /\ mesh.error # ""
    /\ Size(mesh.m_vertices) = 0
    /\ Size(mesh.m_indices) = 0
    /\ Size(mesh.m_vertex_normals) = 0
    /\ Size(mesh.m_triangle_areas) = 0
    /\ mesh.m_triangles_bvh = NotBuilt

C17_Witness ==
  /\ mesh.pc = "returned_null"
  /\ Size(mesh.vertices) % 3 # 0
  /\ Size(mesh.vertices) > 3
  /\ mesh.error # ""

(***************************************************************************)
(* The counters of the mesh import, at the widths of the machine scaled    *)
(* down: unsigned int of UIntBits bits, int one bit less, size_t twice as  *)
(* many. Only the counts are kept: of num_vertices raw vertices the first  *)
(* distinct lie apart from each other and every later one repeats one of   *)
(* them.                                                                   *)
(***************************************************************************)
\* static_cast<int>(n)
CastInt(n) ==
  LET r == n % (UIntMax + 1)
  IN  IF r > IntMax THEN r - (UIntMax + 1) ELSE r

\* static_cast<unsigned int>(n)
CastUInt(n) == n % (UIntMax + 1)

\* the numbers of triangles tried: up to past what unsigned int counts
TriangleCounts == 0..((UIntMax + MaxExcess) \div 3 + 1)

\* lines 42-48: the empty check and size_t num_vertices = triangles.size() * 3
im_Enter ==
  /\ mesh.pc = "im_start"
  /\ mesh' = IF IsZeroPrimitives(mesh.num_triangles)
             THEN [mesh EXCEPT !.pc = "im_threw", !.error = "Empty mesh"]
             ELSE [mesh EXCEPT !.pc = "im_bvh_indices",
                               !.num_vertices = (mesh.num_triangles * 3) % (SizeMax + 1),
                               !.i = 0]
  /\ UNCHANGED <<bounding_boxes, bvh, twin, trav, ov, query, app>>

\* line 62 into bvh.cpp lines 143-145: the build of the vertex BVH starts
\* with for (unsigned int i = 0; i < num_primitives; i++); one test of the
\* condition and, when it holds, one i++ in unsigned arithmetic
im_BuildIndices ==
  /\ mesh.pc = "im_bvh_indices"
  /\ mesh' = IF mesh.i < mesh.num_vertices
             THEN [mesh EXCEPT !.i = CastUInt(mesh.i + 1),
                               !.wrapped = mesh.wrapped \/ mesh.i + 1 > UIntMax]
             ELSE [mesh EXCEPT !.pc = "im_weld", !.i = 0]
  /\ UNCHANGED <<bounding_boxes, bvh, twin, trav, ov, query, app>>

\* is_remapped_vec[i] when the loop reaches i: i repeats an earlier vertex,
\* or the counter has been round once and every vertex is remapped
IsRemapped(m) == m.wrapped \/ m.i >= m.distinct

\* lines 87-113: for (unsigned int original_unique_vertex_index = 0;
\* original_unique_vertex_index < num_vertices; ...++); one test of the
\* condition and, when it holds, one pass of the body
im_Weld ==
  /\ mesh.pc = "im_weld"
  /\ mesh' = IF mesh.i < mesh.num_vertices
             THEN IF IsRemapped(mesh)
                  THEN [mesh EXCEPT !.i = CastUInt(mesh.i + 1),
                                    !.wrapped = mesh.wrapped \/ mesh.i + 1 > UIntMax]
                  ELSE [mesh EXCEPT
                          !.i = CastUInt(mesh.i + 1),
                          !.final_unique_vertex_index = CastUInt(@ + 1),
                          !.num_unique = @ + 1,
                          !.wrapped = \/ mesh.wrapped
                                      \/ mesh.i + 1 > UIntMax
                                      \/ mesh.final_unique_vertex_index + 1 > UIntMax]
             ELSE [mesh EXCEPT !.pc = "im_checks"]
  /\ UNCHANGED <<bounding_boxes, bvh, twin, trav, ov, query, app>>

\* lines 142-149 and 168-169: the two checks, then the sizes of the buffers
im_Checks ==
  /\ mesh.pc = "im_checks"
  /\ mesh' = IF TooManyVertices(mesh.num_unique) \/ TooManyIndices(mesh.num_vertices)
             THEN [mesh EXCEPT !.pc = "im_threw", !.error = "Overflow_Check_Error"]
             ELSE [mesh EXCEPT
                     !.pc = "im_stored",
                     !.unique_vertices_buffer_size = CastUInt(mesh.num_unique * sizeof_vec3),
                     !.m_num_indices = CastInt(mesh.num_vertices),
                     !.indices_buffer_size =
                        CastInt(CastInt(mesh.num_vertices) * sizeof_unsigned_int)]
  /\ UNCHANGED <<bounding_boxes, bvh, twin, trav, ov, query, app>>

InitImport ==
  /\ bounding_boxes = <<>> /\ bvh = Parked /\ twin = Parked /\ trav = TravIdle
  /\ ov = Parked /\ query = Parked /\ app = Parked
  /\ \E n \in TriangleCounts :
       \E d \in { k \in {1, 3, UIntMax \div sizeof_vec3 + 1, 3 * n} : k <= 3 * n } \cup {0} :
          /\ (d = 0) = (n = 0)
          /\ mesh = [pc |-> "im_start", error |-> "", num_triangles |-> n,
                     num_vertices |-> 0, distinct |-> d, i |-> 0,
                     final_unique_vertex_index |-> 0, num_unique |-> 0,
                     wrapped |-> FALSE, unique_vertices_buffer_size |-> 0,
                     m_num_indices |-> 0, indices_buffer_size |-> 0]

NextImport == im_Enter \/ im_BuildIndices \/ im_Weld \/ im_Checks

SpecImport == InitImport /\ [][NextImport]_vars

\* C18: an import whose counts are beyond what the buffer sizes can hold is
\* rejected, and no counter wraps and no size is cut short on the way: the
\* loop counters stay unwrapped, a stored mesh is within both limits and its
\* sizes are the exact products
C18_RejectedBeforeAnyWrap ==
  mesh.pc # "off" =>
    /\ ~mesh.wrapped
    /\ mesh.pc = "im_stored" =>
         /\ mesh.num_unique * sizeof_vec3 <= UIntMax
         /\ mesh.num_vertices * sizeof_unsigned_int <= IntMax
         /\ mesh.unique_vertices_buffer_size = mesh.num_unique * sizeof_vec3
         /\ mesh.m_num_indices = mesh.num_vertices
         /\ mesh.indices_buffer_size = mesh.num_vertices * sizeof_unsigned_int

(***************************************************************************)
(* GeoBox_App: the lists of objects and the undo and redo stacks           *)
(***************************************************************************)
MaxObjects == 2

MaxMessages == 3

\* what read_stl_mesh_file can hand back: nothing, no triangle, one
\* triangle, two triangles with six vertices apart
StlFiles ==
  { [has_value |-> FALSE, triangles |-> <<>>],
    [has_value |-> TRUE, triangles |-> <<>>],
    [has_value |-> TRUE,
     triangles |-> << <<Vec3(0, 0, 0), Vec3(4, 0, 0), Vec3(0, 4, 0)>> >>],
    [has_value |-> TRUE,
     triangles |-> << <<Vec3(0, 0, 0), Vec3(4, 0, 0), Vec3(0, 4, 0)>>,
                      <<Vec3(8, 0, 0), Vec3(8, 4, 0), Vec3(8, 0, 4)>> >>] }

\* the numbers of points a generator can hand to Point_Cloud_Object
PointCounts == {0, 2, UIntMax \div sizeof_vec3 + 1}

Top(stack) == stack[Len(stack)]

Pop(stack) == SubSeq(stack, 1, Len(stack) - 1)

\* std::erase(list, object)
Erase(list, object) == SelectSeq(list, LAMBDA o : o # object)

\* a failed import that also drops the redo stack
ImportFailed_drops_redo(a, messages) ==
  [a EXCEPT !.cerr = @ \o messages, !.m_redo_stack = <<>>]

\* lines 1210-1217 and 1225-1228: the message, and the handler is left
ImportFailed(a, messages) == [a EXCEPT !.cerr = @ \o messages]

\* lines 1220-1224 and 1046-1052: the object joins its list, and the entry
\* that undoes and redoes it the undo stack
AddObject(a, kind) ==
  LET object == [id |-> a.created + 1, kind |-> kind]
  IN  [a EXCEPT
         !.created = @ + 1,
         !.m_objects = IF kind = "mesh" THEN Append(@, object) ELSE @,
         !.m_point_cloud_objects = IF kind = "cloud" THEN Append(@, object) ELSE @,
         !.m_undo_stack = Append(@, object)]

\* lines 1205-1229 after the file is read
LoadStl(a, file) ==
  IF ~file.has_value
  THEN ImportFailed(a, <<"Failed to import .stl mesh file">>)
  ELSE IF file.triangles = <<>>
  THEN ImportFailed(a, <<"Empty mesh">>)
  ELSE LET built == ConstructMesh(VectorOf(Flatten(file.triangles)))
       IN  IF built.pc = "threw"
           THEN ImportFailed(a, <<built.error, "Failed to create object">>)
           ELSE AddObject(a, "mesh")

\* lines 1205-1229: GeoBox_App::on_load_stl_dialog_ok(file_path)
on_load_stl_dialog_ok ==
  /\ app.pc = "running"
  /\ \E file \in StlFiles :
       /\ app.created < MaxObjects
       /\ Len(app.cerr) + 2 <= MaxMessages
       /\ app' = CHOOSE next \in { LoadStl(app, file) } : TRUE
  /\ UNCHANGED <<bounding_boxes, bvh, twin, trav, ov, query, mesh>>

\* part_006 lines 11-19: the two checks of Point_Cloud_Object
TooManyPoints(n) == n > IntMax \/ n > UIntMax \div sizeof_vec3

\* lines 936-948 and 1044-1056: the two buttons that generate points
on_generate_points_button_click ==
  /\ app.pc = "running"
  /\ \E n \in PointCounts :
       /\ app.created < MaxObjects
       /\ Len(app.cerr) + 1 <= MaxMessages
       /\ app' = IF TooManyPoints(n)
                 THEN [app EXCEPT !.cerr = Append(@, "Overflow_Check_Error")]
                 ELSE AddObject(app, "cloud")
  /\ UNCHANGED <<bounding_boxes, bvh, twin, trav, ov, query, mesh>>

\* an undo that leaves the object in its list
EntryUndo_keeps(a, object) == a

\* entry.undo() and entry.redo() of the entry made for object
EntryUndo(a, object) ==
  [a EXCEPT !.m_objects = IF object.kind = "mesh" THEN Erase(@, object) ELSE @,
            !.m_point_cloud_objects =
               IF object.kind = "cloud" THEN Erase(@, object) ELSE @]

EntryRedo(a, object) ==
  [a EXCEPT !.m_objects = IF object.kind = "mesh" THEN Append(@, object) ELSE @,
            !.m_point_cloud_objects =
               IF object.kind = "cloud" THEN Append(@, object) ELSE @]

\* geobox_app.hpp lines 146-154
undo ==
  /\ app.pc = "running"
  /\ app' = IF app.m_undo_stack = <<>> THEN app
            ELSE LET entry == Top(app.m_undo_stack)
                 IN  [EntryUndo(app, entry) EXCEPT
                        !.m_redo_stack = Append(@, entry),
                        !.m_undo_stack = Pop(@)]
  /\ UNCHANGED <<bounding_boxes, bvh, twin, trav, ov, query, mesh>>

\* geobox_app.hpp lines 156-164
redo ==
  /\ app.pc = "running"
  /\ app' = IF app.m_redo_stack = <<>> THEN app
            ELSE LET entry == Top(app.m_redo_stack)
                 IN  [EntryRedo(app, entry) EXCEPT
                        !.m_undo_stack = Append(@, entry),
                        !.m_redo_stack = Pop(@)]
  /\ UNCHANGED <<bounding_boxes, bvh, twin, trav, ov, query, mesh>>

InitApp ==
  /\ bounding_boxes = <<>> /\ bvh = Parked /\ twin = Parked /\ trav = TravIdle
  /\ ov = Parked /\ query = Parked /\ mesh = Parked
  /\ app = [pc |-> "running", created |-> 0, cerr |-> <<>>,
            m_objects |-> <<>>, m_point_cloud_objects |-> <<>>,
            m_undo_stack |-> <<>>, m_redo_stack |-> <<>>]

NextApp == on_load_stl_dialog_ok \/ on_generate_points_button_click \/ undo \/ redo

SpecApp == InitApp /\ [][NextApp]_vars

ImportFailureMessages ==
  {"Failed to import .stl mesh file", "Empty mesh", "Failed to create object"}

\* the step is an import that failed: its message is the new end of cerr
ImportFailedStep ==
  /\ Len(app'.cerr) > Len(app.cerr)
  /\ Top(app'.cerr) \in ImportFailureMessages

\* C19: a failed STL import, whether the file was unreadable, the mesh empty
\* or the mesh object threw, leaves the mesh objects, the point clouds and
\* the undo and redo stacks as they were
C19_FailedImportChangesNothing ==
  [][ImportFailedStep =>
       /\ app'.m_objects = app.m_objects
       /\ app'.m_point_cloud_objects = app.m_point_cloud_objects
       /\ app'.m_undo_stack = app.m_undo_stack
       /\ app'.m_redo_stack = app.m_redo_stack]_vars

\* the mesh object threw while a mesh, an undo entry and a redo entry exist
C19_Witness ==
  /\ app.pc = "running"
  /\ app.cerr # <<>>
  /\ Top(app.cerr) = "Failed to create object"
  /\ app.m_objects # <<>>
  /\ app.m_undo_stack # <<>>
  /\ app.m_redo_stack # <<>>

(***************************************************************************)
(* GeoBox_App::generate_points_in_volume on one object: a candidate point  *)
(* is the list of its rays, a ray the list of the triangles it hits, each  *)
(* with its distance t and the sign of dot(direction, normal)              *)
(***************************************************************************)
MaxRays == 4

FarthestHit == 100000

Hit(t, positive) == [t |-> t, positive |-> positive]

\* the hits of one ray, in the order the traversal reports them
RayHits ==
  { <<>>,
    <<Hit(2, TRUE)>>,
    <<Hit(5, TRUE), Hit(2, FALSE)>> }

\* lines 1002-1030: closest_hit_is_ray_triangle_normal_dot_product_positive
\* after the callback has seen hits[k..]
RECURSIVE ClosestIsPositive(_, _, _, _)
ClosestIsPositive(hits, k, closest_hit, positive) ==
  IF k > Len(hits) THEN positive
  ELSE IF hits[k].t < closest_hit
  THEN ClosestIsPositive(hits, k + 1, hits[k].t, hits[k].positive)
  ELSE ClosestIsPositive(hits, k + 1, closest_hit, positive)

\* lines 998-1034: num_positive_hits after the rays k.. of a candidate
RECURSIVE CountPositiveHits(_, _, _)
CountPositiveHits(rays, k, num_positive_hits) ==
  IF k > Len(rays) THEN num_positive_hits
  ELSE CountPositiveHits(rays, k + 1,
         IF ClosestIsPositive(rays[k], 1, FarthestHit, FALSE)
         THEN num_positive_hits + 1 ELSE num_positive_hits)

\* the test letting half of the rays do
IsKept_at_half(num_positive_hits, num_directions) ==
  num_positive_hits >= num_directions \div 2

\* line 1036: if (num_positive_hits > (directions.size() / 2))
IsKept(num_positive_hits, num_directions) ==
  num_positive_hits > num_directions \div 2

\* lines 996-1038: the loop over the candidates pi.., result the points kept
RECURSIVE VolumeLoop(_, _, _, _)
VolumeLoop(candidates, num_directions, pi, result) ==
  IF pi > Len(candidates) THEN result
  ELSE VolumeLoop(candidates, num_directions, pi + 1,
         IF IsKept(CountPositiveHits(candidates[pi], 1, 0), num_directions)
         THEN Append(result, pi) ELSE result)

\* lines 964-1042
generate_points_in_volume ==
  /\ query.pc = "points_in_volume"
  /\ query' = [query EXCEPT
                 !.pc = "returned_points",
                 !.result = VolumeLoop(query.candidates, query.num_rays, 1, <<>>)]
  /\ UNCHANGED <<bounding_boxes, bvh, twin, trav, ov, mesh, app>>

\* m_points_in_volume_count_before_filtering
CandidateCounts == {0, 1, 2}

InitVolume ==
  /\ bounding_boxes = <<>> /\ bvh = Parked /\ twin = Parked /\ trav = TravIdle
  /\ ov = Parked /\ mesh = Parked /\ app = Parked
  /\ \E num_rays \in 0..MaxRays, n \in CandidateCounts :
       \E candidates \in [1..n -> [1..num_rays -> RayHits]] :
          query = [pc |-> "points_in_volume", num_rays |-> num_rays,
                   candidates |-> candidates, result |-> <<>>]

NextVolume == generate_points_in_volume

SpecVolume == InitVolume /\ [][NextVolume]_vars

\* the rays of a candidate whose nearest hit has a positive dot product
PositiveRays(rays) ==
  { k \in DOMAIN rays : ClosestIsPositive(rays[k], 1, FarthestHit, FALSE) }

InResult(pi) == \E k \in DOMAIN query.result : query.result[k] = pi

\* C20: with M >= 1 directions a candidate is in the result iff strictly
\* more than half of its M rays are positive crossings, 2 * positive > M,
\* whether M is odd or even
C20_StrictMajorityKept ==
  (query.pc = "returned_points" /\ query.num_rays >= 1) =>
    \A pi \in DOMAIN query.candidates :
      InResult(pi) <=>
        2 * Cardinality(PositiveRays(query.candidates[pi])) > query.num_rays

\* an even M: the candidate with half of its rays positive is dropped, the
\* one with one more is kept
C20_Witness ==
  /\ query.pc = "returned_points"
  /\ query.num_rays = 4
  /\ Len(query.candidates) = 2
  /\ Cardinality(PositiveRays(query.candidates[1])) = 2
  /\ Cardinality(PositiveRays(query.candidates[2])) = 3
  /\ query.result = <<2>>

(***************************************************************************)
(* Claims about the axis, the split position and the shape of the tree     *)
(***************************************************************************)
\* the nodes the build loop has popped and dealt with
Processed == { p \in Allocated : ~OnStack(p) }

CenterOf(i, a) == Center2(bounding_boxes[i])[a + 1]

RECURSIVE CenterSum(_, _)
CenterSum(S, a) ==
  IF S = {} THEN 0
  ELSE LET i == CHOOSE x \in S : TRUE
       IN  CenterOf(i, a) + CenterSum(S \ {i}, a)

\* the sum over S of the squared distance to sum / n on axis a, times n^2
RECURSIVE DeviationSum(_, _, _, _)
DeviationSum(S, n, sum, a) ==
  IF S = {} THEN 0
  ELSE LET i == CHOOSE x \in S : TRUE
           d == n * CenterOf(i, a) - sum
       IN  d * d + DeviationSum(S \ {i}, n, sum, a)

\* the sum over S of the squared distance to the mean on axis a, times |S|^2
Spread(S, a) == DeviationSum(S, Cardinality(S), CenterSum(S, a), a)

Axes == {0, 1, 2}

\* the lowest of the axes on which the centers of S spread most
LowestWidestAxis(S) ==
  LET spread == [a \in Axes |-> Spread(S, a)]
  IN  MinOf({ a \in Axes : \A b \in Axes : spread[a] >= spread[b] })

\* the members of S whose center on axis a is below the mean of S on it
BelowMean(S, a) ==
  LET n   == Cardinality(S)
      sum == CenterSum(S, a)
  IN  { i \in S : n * CenterOf(i, a) < sum }

\* C23: a node is split along the lowest axis of greatest variance of its
\* centers, at their mean on that axis: the left child of every internal
\* node holds the centers below that mean and the right child the others,
\* and a dealt-with node of several primitives stayed a leaf only when that
\* same split leaves one side empty
C23_SplitOnLowestWidestAxisAtMean ==
  \A p \in Processed :
    LET S    == Members(p)
        left == BelowMean(S, LowestWidestAxis(S))
    IN  IF is_leaf(Nodes[p])
        THEN num_primitives(Nodes[p]) > 1 => left \in {{}, S}
        ELSE /\ Members(Nodes[p].left) = left
             /\ Members(Nodes[p].right) = S \ left

\* the root's centers spread equally, and most, on axis 0 and on a later
\* axis, and the two axes would split them differently
C23_Witness ==
  /\ Built
  /\ ~is_leaf(Nodes[bvh.m_root])
  /\ \E b \in {1, 2} :
       /\ Spread(Prims, 0) = Spread(Prims, b)
       /\ \A a \in Axes : Spread(Prims, 0) >= Spread(Prims, a)
       /\ BelowMean(Prims, 0) # BelowMean(Prims, b)
       /\ Members(Nodes[bvh.m_root].left) = BelowMean(Prims, 0)

\* the primitives whose center is below the split position the code takes
\* for the range of node p, on the axis it takes for it
BelowSplit(p) ==
  LET c2   == bounding_box_centers(bounding_boxes)
      axis == ChooseAxis(c2, bvh.m_primitive_indices, Nodes[p].first, Nodes[p].last)
      sum  == SumLoop(c2, bvh.m_primitive_indices, Nodes[p].first, Nodes[p].last, axis)
      n    == num_primitives(Nodes[p])
  IN  { i \in DOMAIN c2 : n * c2[i][axis + 1] < sum }

\* C24: at every moment after a node was split, whatever was partitioned
\* since, every index in the range of its left child has its center below
\* the node's split position on the node's axis and every index in the range
\* of its right child has not
C24_ChildrenStayOnTheirSide ==
  \A p \in Internal :
    LET below == BelowSplit(p)
    IN  /\ \A k \in Range(Nodes[p].left) : bvh.m_primitive_indices[k] \in below
        /\ \A k \in Range(Nodes[p].right) : bvh.m_primitive_indices[k] \notin below

\* a finished tree of two levels of splits in which the partitions have
\* reordered the indices
C24_Witness ==
  /\ Built
  /\ \E p \in Internal : p # bvh.m_root
  /\ \E k \in Prims : bvh.m_primitive_indices[k] # k

OneSided(p) ==
  LET below == BelowSplit(p)
  IN  \/ Members(p) \subseteq below
      \/ Members(p) \cap below = {}

\* C25: a node the build has dealt with has no child or two, and it is a
\* leaf exactly when it holds one primitive or its partition left one side
\* of the split position empty
C25_ZeroOrTwoChildren ==
  \A p \in Processed :
    /\ (Nodes[p].left = NULL) = (Nodes[p].right = NULL)
    /\ is_leaf(Nodes[p]) <=> (num_primitives(Nodes[p]) = 1 \/ OneSided(p))

\* a finished tree with an internal node, a leaf of one primitive and a leaf
\* of several
C25_Witness ==
  /\ Built
  /\ Internal # {}
  /\ \E p \in Leaves : num_primitives(Nodes[p]) = 1
  /\ \E p \in Leaves : num_primitives(Nodes[p]) > 1 /\ OneSided(p)

SameCenters(S) ==
  \A i \in S, j \in S : Center2(bounding_boxes[i]) = Center2(bounding_boxes[j])

\* C28: in the finished tree a leaf of several primitives holds equal
\* centers only, and a node whose centers differ has two children, both
\* with primitives
C28_LeavesHoldEqualCenters ==
  Built =>
    \A p \in Allocated :
      IF SameCenters(Members(p))
      THEN is_leaf(Nodes[p])
      ELSE /\ ~is_leaf(Nodes[p])
           /\ Members(Nodes[p].left) # {}
           /\ Members(Nodes[p].right) # {}

\* two primitives with one center stay together in a leaf under a root that
\* was split off a third with another center
C28_Witness ==
  /\ Built
  /\ NumPrimitives = 3
  /\ ~is_leaf(Nodes[bvh.m_root])
  /\ ~SameCenters(Prims)
  /\ \E p \in Leaves : num_primitives(Nodes[p]) = 2 /\ SameCenters(Members(p))

\* C27: in a stored mesh any two unique vertices are farther apart than the
\* weld tolerance, and every raw vertex is within the tolerance of the
\* unique vertex its index names
C27_UniqueVerticesApart ==
  MeshStored =>
    /\ \A j \in DOMAIN mesh.m_vertices, k \in DOMAIN mesh.m_vertices :
         j # k => distance2(mesh.m_vertices[j], mesh.m_vertices[k]) > range * range
    /\ \A i \in DOMAIN mesh.vertices :
         /\ mesh.m_indices[i] \in DOMAIN mesh.m_vertices
         /\ distance2(mesh.vertices[i], mesh.m_vertices[mesh.m_indices[i]])
              <= range * range

\* a raw vertex welded to a unique vertex at another position, exactly the
\* tolerance away, next to a second unique vertex
C27_Witness ==
  /\ MeshStored
  /\ Size(mesh.m_vertices) >= 2
  /\ \E i \in DOMAIN mesh.vertices :
       distance2(mesh.vertices[i], mesh.m_vertices[mesh.m_indices[i]]) = range * range

\* part_022 lines 960-962
is_point_in_aabb(p, aabb) ==
  \A i \in 1..3 : p[i] >= aabb.min[i] /\ p[i] <= aabb.max[i]

\* part_022 lines 1026-1031: the AABB filter of the ray queries
ray_aabb_filter(ray, aabb) ==
  IF is_point_in_aabb(ray.origin, aabb) THEN TRUE
  ELSE ray_aabb_intersection(ray, aabb) >= 0

\* the coordinates of the boxes and of the origins tried
RayCoordinates ==
  RayOriginCoordinates
    \cup UNION { { b.min[i] : i \in 1..3 } \cup { b.max[i] : i \in 1..3 } : b \in RayBoxes }

\* the parameters t >= 0, in steps of 1 / TScale, up to the longest way
\* between two coordinates; the ends of all slab intervals are among them
RayParameters == 0..((MaxOf(RayCoordinates) - MinOf(RayCoordinates)) * TScale)

\* origin + t * direction is in the box, t counted in steps of 1 / TScale
PointOnRayInBox(t) ==
  \A i \in 1..3 :
    LET x == query.ray.origin[i] * TScale + t * query.ray.direction[i]
    IN  query.aabb.min[i] * TScale <= x /\ x <= query.aabb.max[i] * TScale

RayEntersBox == \E t \in RayParameters : PointOnRayInBox(t)

\* C29: whenever some point of the ray, origin + t * direction with t >= 0,
\* lies in the box, the value returned is not negative and the AABB filter
\* of the ray queries lets the box through
C29_NoFalseNegative ==
  (RayAabbReturned /\ RayEntersBox) =>
    /\ query.t >= 0
    /\ ray_aabb_filter(query.ray, query.aabb)

\* a ray from outside the box that reaches it further on, going down on
\* some axis
C29_Witness ==
  /\ RayAabbReturned
  /\ ~OriginInside
  /\ ~PointOnRayInBox(0)
  /\ RayEntersBox
  /\ \E i \in 1..3 : query.ray.direction[i] < 0
  /\ query.t > 0

\* how many times object is in list
Occurrences(list, object) ==
  Cardinality({ k \in 1..Len(list) : list[k] = object })

\* the list an object of its kind is kept in
ListOf(object) ==
  IF object.kind = "mesh" THEN app.m_objects ELSE app.m_point_cloud_objects

Entries(stack) == { stack[k] : k \in 1..Len(stack) }

\* every object recorded so far has one entry, on one of the two stacks; it
\* is once in its list when the entry is on the undo stack and not in it when
\* the entry is on the redo stack
EntriesMatchLists ==
  /\ \A id \in 1..app.created :
       Cardinality({ k \in 1..Len(app.m_undo_stack) : app.m_undo_stack[k].id = id })
         + Cardinality({ k \in 1..Len(app.m_redo_stack) : app.m_redo_stack[k].id = id })
         = 1
  /\ \A e \in Entries(app.m_undo_stack) : Occurrences(ListOf(e), e) = 1
  /\ \A e \in Entries(app.m_redo_stack) : Occurrences(ListOf(e), e) = 0
  /\ Len(app.m_objects) + Len(app.m_point_cloud_objects) = Len(app.m_undo_stack)

\* the top entry of from has gone to the top of to, nothing else moved
MovedOne(from, to, from_after, to_after) ==
  IF from = <<>>
  THEN from_after = from /\ to_after = to
  ELSE /\ from_after = SubSeq(from, 1, Len(from) - 1)
       /\ to_after = to \o <<from[Len(from)]>>

\* C30: after any run of loads, point generations, undos and redos every
\* recorded object is once in its list if its entry is on the undo stack
\* and not in it if the entry is on the redo stack; an undo moves the top
\* entry of the undo stack to the redo stack, a redo moves it back, and each
\* changes nothing when its stack is empty
C30_UndoRedoConsistent ==
  /\ [](app.pc = "running" => EntriesMatchLists)
  /\ [][undo => /\ MovedOne(app.m_undo_stack, app.m_redo_stack,
                            app'.m_undo_stack, app'.m_redo_stack)
                /\ app.m_undo_stack = <<>> => app' = app]_vars
  /\ [][redo => /\ MovedOne(app.m_redo_stack, app.m_undo_stack,
                            app'.m_redo_stack, app'.m_undo_stack)
                /\ app.m_redo_stack = <<>> => app' = app]_vars

\* a mesh undone, then a point cloud generated: the older entry waits on the
\* redo stack under no list, the newer one is on the undo stack
C30_Witness ==
  /\ app.pc = "running"
  /\ app.m_objects = <<>>
  /\ Len(app.m_point_cloud_objects) = 1
  /\ Len(app.m_redo_stack) = 1 /\ app.m_redo_stack[1].kind = "mesh"
  /\ Len(app.m_undo_stack) = 1 /\ app.m_undo_stack[1].kind = "cloud"
  /\ app.m_redo_stack[1].id < app.m_undo_stack[1].id

\* ---------------------------------------------------------------------
\* Claims about the conditions of the ray-triangle test
\* ---------------------------------------------------------------------

\* the solution of origin + t * D = a + u * (b - a) + v * (c - a) by triple
\* products, as numerators over det; D is the unnormalised direction, so the
\* parameter along the unit direction is t * sqrt(length2)
RayPlaneSolution(ray, triangle) ==
  LET ab == Sub(triangle[2], triangle[1])
      ac == Sub(triangle[3], triangle[1])
      ao == Sub(triangle[1], ray.origin)
      D  == ray.direction
  IN  [det |-> Dot(D, Cross(ab, ac)),
       t   |-> Dot(ao, Cross(ab, ac)),
       u   |-> Dot(ao, Cross(D, ac)),
       v   |-> Dot(ao, Cross(ab, D))]

\* s solves the system, every component multiplied by det
SolvesRayPlane(ray, triangle, s) ==
  LET ab == Sub(triangle[2], triangle[1])
      ac == Sub(triangle[3], triangle[1])
  IN  \A i \in 1..3 :
        ray.origin[i] * s.det + s.t * ray.direction[i]
          = triangle[1][i] * s.det + s.u * ab[i] + s.v * ac[i]

\* |det| >= epsilon for the unit direction
DetAtLeastEpsilon(s, L2) ==
  s.det * s.det >=
    (L2 * GridPerUnit * GridPerUnit * GridPerUnit * GridPerUnit + EpsDen * EpsDen - 1)
      \div (EpsDen * EpsDen)

\* t >= -epsilon for the unit direction, that is t >= 0 or
\* sqrt(L2) * |t| * EpsDen <= |det| * GridPerUnit; the second conjunct is
\* the first without sqrt(L2) >= 1
TAtLeastMinusEpsilon(s, L2) ==
  \/ s.t * Sign(s.det) >= 0
  \/ /\ Abs(s.t) * EpsDen <= Abs(s.det) * GridPerUnit
     /\ s.t * s.t * EpsDen * EpsDen <= (s.det * s.det * GridPerUnit * GridPerUnit) \div L2

\* n / det >= -epsilon
AtLeastMinusEpsilon(n, det) == EpsDen * n * Sign(det) >= -Abs(det)

\* n / det <= 1 + epsilon
AtMostOnePlusEpsilon(n, det) == EpsDen * n * Sign(det) <= (EpsDen + 1) * Abs(det)

InsideWithTolerance(s, L2) ==
  /\ DetAtLeastEpsilon(s, L2)
  /\ TAtLeastMinusEpsilon(s, L2)
  /\ AtLeastMinusEpsilon(s.u, s.det)
  /\ AtLeastMinusEpsilon(s.v, s.det)
  /\ AtMostOnePlusEpsilon(s.u + s.v, s.det)

\* C26: the test reports a hit exactly when |det| >= epsilon, t >= -epsilon,
\* u >= -epsilon, v >= -epsilon and u + v <= 1 + epsilon, where (t, u, v)
\* solves origin + t * direction = a + u * (b - a) + v * (c - a); when
\* |det| < epsilon it reports a miss.
C26_HitIffInsideWithTolerance ==
  RayTriangleReturned =>
    LET s == RayPlaneSolution(query.ray, query.triangle)
    IN  /\ SolvesRayPlane(query.ray, query.triangle, s)
        /\ query.hit <=> InsideWithTolerance(s, query.ray.length2)
        /\ ~DetAtLeastEpsilon(s, query.ray.length2) => ~query.hit

\* a hit whose u or v lies between -epsilon and 0
C26_Witness ==
  /\ RayTriangleReturned
  /\ query.hit
  /\ LET s == RayPlaneSolution(query.ray, query.triangle)
     IN  s.u * Sign(s.det) < 0 \/ s.v * Sign(s.det) < 0

(***************************************************************************)
(* The classification of one ray of generate_points_in_volume              *)
(* (part_022 lines 999-1035).  The mesh is a list of triangles, each the   *)
(* only primitive of its leaf; the box of a leaf is the box of its         *)
(* triangle, and a box that contains a box passing the filter of lines     *)
(* 1026-1031 passes it too, so a triangle reaches the callback exactly     *)
(* when its own box passes.  Coordinates are in grid steps, GridPerUnit    *)
(* steps to the unit; the directions tried are along an axis.              *)
(***************************************************************************)
MaxRayTriangles == 2

ProbeOrigin == Vec3(1, 1, 0)

ProbeDirections == { Vec3(0, 0, 1), Vec3(0, 0, -1), Vec3(1, 0, 0) }

\* a right triangle with legs of 5 steps in the plane of height z, its
\* normal along +z, or along -z when flipped; large enough for |det| to be
\* above epsilon
TriangleAt(x, z, flipped) ==
  IF flipped
  THEN <<Vec3(x, 0, z), Vec3(x, 5, z), Vec3(x + 5, 0, z)>>
  ELSE <<Vec3(x, 0, z), Vec3(x + 5, 0, z), Vec3(x, 5, z)>>

\* 2 units and one step below the origin, 2 and 5 units above it, and at
\* and beyond the initial value of closest_hit
ProbeHeights ==
  { -2 * GridPerUnit, -1, 2 * GridPerUnit, 5 * GridPerUnit,
    FarthestHit * GridPerUnit, (FarthestHit + 1) * GridPerUnit }

\* the triangles over the origin, and one beside it
ProbeTriangles ==
  { TriangleAt(0, z, f) : z \in ProbeHeights, f \in BOOLEAN }
    \cup { TriangleAt(6, 2 * GridPerUnit, FALSE) }

\* the box of a triangle, the box of its leaf
TriangleBox(tr) ==
  AABB(glm_min(tr[1], glm_min(tr[2], tr[3])), glm_max(tr[1], glm_max(tr[2], tr[3])))

\* lines 987-995: the box of the object, in which the candidates are drawn
RECURSIVE ObjectBox(_, _)
ObjectBox(triangles, k) ==
  IF k = Len(triangles) THEN TriangleBox(triangles[k])
  ELSE LET rest == ObjectBox(triangles, k + 1)
       IN  AABB(glm_min(TriangleBox(triangles[k]).min, rest.min),
                glm_max(TriangleBox(triangles[k]).max, rest.max))

\* the value of the optional returned for a hit: t = (c11 * c.x + c21 * c.y
\* + c31 * c.z) / det, in grid steps along a direction of GridPerUnit steps
\* (the quotient is exact for the directions tried)
HitParameter(ray, triangle) ==
  LET N == Cross(Sub(triangle[2], triangle[1]), Sub(triangle[3], triangle[1]))
  IN  (Dot(Sub(triangle[1], ray.origin), N) * GridPerUnit) \div Dot(ray.direction, N)

\* the ray of direction d, of unit length
ProbeRay(d) == UnitRay(ProbeOrigin, Scale(GridPerUnit, d))

\* lines 1005-1031: the hits the callback goes on with, in the order of the
\* traversal, from triangle k on
RECURSIVE ReportedHits(_, _, _)
ReportedHits(d, triangles, k) ==
  IF k > Len(triangles) THEN <<>>
  ELSE LET tr          == triangles[k]
           dot_product == Dot(d, TriangleNormal(tr))
           rest        == ReportedHits(d, triangles, k + 1)
       IN  IF ~ray_aabb_filter(Ray(ProbeOrigin, d), TriangleBox(tr)) THEN rest
           ELSE IF is_close_to_zero(dot_product) THEN rest
           ELSE IF ~ray_intersects_triangle_non_coplanar(ProbeRay(d), tr) THEN rest
           ELSE <<Hit(HitParameter(ProbeRay(d), tr), dot_product > 0)>> \o rest

\* lines 1000-1035 for one ray
classify_ray ==
  /\ query.pc = "classify"
  /\ query' = [query EXCEPT
                 !.pc = "classified",
                 !.positive =
                    ClosestIsPositive(ReportedHits(query.direction, query.triangles, 1),
                                      1, FarthestHit * GridPerUnit, FALSE)]
  /\ UNCHANGED <<bounding_boxes, bvh, twin, trav, ov, mesh, app>>

InitClassify ==
  /\ bounding_boxes = <<>> /\ bvh = Parked /\ twin = Parked /\ trav = TravIdle
  /\ ov = Parked /\ mesh = Parked /\ app = Parked
  /\ \E n \in 0..MaxRayTriangles, d \in ProbeDirections :
       \E triangles \in [1..n -> ProbeTriangles] :
          /\ n > 0 => is_point_in_aabb(ProbeOrigin, ObjectBox(triangles, 1))
          /\ query = [pc |-> "classify", direction |-> d, triangles |-> triangles,
                      positive |-> FALSE]

NextClassify == classify_ray

SpecClassify == InitClassify /\ [][NextClassify]_vars

\* ---------------------------------------------------------------------
\* Claims about the classification of a ray
\* ---------------------------------------------------------------------

\* the triangles of the mesh the ray intersects, those with a normal
\* perpendicular to the ray left out
Intersected ==
  { i \in DOMAIN query.triangles :
      /\ Dot(query.direction, TriangleNormal(query.triangles[i])) # 0
      /\ InsideWithTolerance(RayPlaneSolution(ProbeRay(query.direction), query.triangles[i]),
                             ProbeRay(query.direction).length2) }

\* a / b <= c / d for b, d > 0, compared by whole parts and remainders
RatioAtMost(a, b, c, d) ==
  \/ a \div b < c \div d
  \/ a \div b = c \div d /\ (a % b) * d <= (c % d) * b

\* the hit parameter of triangle i is at most that of triangle j
NotFarther(i, j) ==
  LET si == RayPlaneSolution(ProbeRay(query.direction), query.triangles[i])
      sj == RayPlaneSolution(ProbeRay(query.direction), query.triangles[j])
  IN  RatioAtMost(si.t * Sign(si.det), Abs(si.det), sj.t * Sign(sj.det), Abs(sj.det))

Nearest == { i \in Intersected : \A j \in Intersected : NotFarther(i, j) }

PositiveNormal(i) == Dot(query.direction, TriangleNormal(query.triangles[i])) > 0

\* C21: the ray is classified positive exactly when, among the triangles it
\* intersects, the one with the smallest hit parameter has a normal with a
\* positive dot product with the direction, at any hit distance and with
\* the filter of the traversal as without it (where two triangles are
\* nearest at the same parameter either may decide)
C21_ClassifiedByNearestTriangle ==
  query.pc = "classified" =>
    /\ query.positive => \E i \in Nearest : PositiveNormal(i)
    /\ (Nearest # {} /\ \A i \in Nearest : PositiveNormal(i)) => query.positive

(***************************************************************************)
(* Points on the surface: GeoBox_App::generate_points_on_surface           *)
(* (part_022 lines 895-934) on one object.  The draws u0 and u1 are on a   *)
(* grid: u1 = k / SqrtSteps, and u0 = k^2 / SqrtSteps^2 so that its square *)
(* root is on the grid too.  Barycentric coordinates and points are kept   *)
(* as numerators over SqrtSteps^2.                                         *)
(***************************************************************************)
MaxSamples == 1

SqrtSteps == 3

UnitSquare == SqrtSteps * SqrtSteps

\* std::sqrt of n / SqrtSteps^2, as a numerator over SqrtSteps
Sqrt(n) == CHOOSE r \in 0..SqrtSteps : r * r = n

\* the pair (1 - u0, u1), without the square root
random_triangle_barycentric_coords_transform_no_sqrt(u0, u1) ==
  <<UnitSquare - u0, u1 * SqrtSteps>>

\* lines 895-900: {1 - su0, u1 * su0} with su0 = std::sqrt(u0); u0 is a
\* numerator over SqrtSteps^2 and u1 one over SqrtSteps
random_triangle_barycentric_coords_transform(u0, u1) ==
  LET su0 == Sqrt(u0)
  IN  <<(SqrtSteps - su0) * SqrtSteps, u1 * su0>>

\* the values of std::uniform_real_distribution(0.0f, 1.0f) tried for u0
\* and for u1
U0Draws == { k * k : k \in 0..SqrtSteps }

U1Draws == 0..SqrtSteps

\* lines 918-921: the values a std::discrete_distribution<size_t> built on
\* the weights can generate: 0 .. n - 1 for n weights
DiscreteDraws(weights) ==
  IF Size(weights) = 0 THEN {0} ELSE 0..(Size(weights) - 1)

\* lines 922-929: the point of one sample, times SqrtSteps^2
SurfacePoint(object, triangle_index, uv) ==
  LET a  == object.m_vertices[object.m_indices[triangle_index * 3]]
      b  == object.m_vertices[object.m_indices[triangle_index * 3 + 1]]
      c  == object.m_vertices[object.m_indices[triangle_index * 3 + 2]]
      ab == Sub(b, a)
      ac == Sub(c, a)
  IN  Add(Add(Scale(uv[1], ab), Scale(uv[2], ac)), Scale(UnitSquare, a))

\* lines 921-931: one pass of the sampling loop; the point is kept with the
\* draws it was made from
sample_point ==
  /\ query.pc = "surface"
  /\ query.i < query.count
  /\ \E triangle_index \in DiscreteDraws(mesh.m_triangle_areas),
        u0 \in U0Draws, u1 \in U1Draws :
       LET uv == random_triangle_barycentric_coords_transform(u0, u1)
       IN  query' = [query EXCEPT
                       !.i = @ + 1,
                       !.points = Append(@, [triangle_index |-> triangle_index,
                                             uv |-> uv,
                                             p  |-> SurfacePoint(mesh, triangle_index, uv)])]
  /\ UNCHANGED <<bounding_boxes, bvh, twin, trav, ov, mesh, app>>

\* line 933: return points
return_points ==
  /\ query.pc = "surface"
  /\ query.i >= query.count
  /\ query' = [query EXCEPT !.pc = "returned_surface"]
  /\ UNCHANGED <<bounding_boxes, bvh, twin, trav, ov, mesh, app>>

\* a triangle with extent on every axis and a triangle with two equal
\* corners
SurfaceTriangles ==
  { <<Vec3(2, 0, 0), Vec3(4, 4, 0), Vec3(0, 0, 4)>>,
    <<Vec3(0, 0, 0), Vec3(0, 0, 0), Vec3(0, 4, 0)>> }

\* the objects of m_objects: meshes the constructor has built
SurfaceObjects ==
  { ConstructMesh(VectorOf(Flatten(l))) :
      l \in UNION { [1..n -> SurfaceTriangles] : n \in 1..MaxTriangles } }

InitSurface ==
  /\ bounding_boxes = <<>> /\ bvh = Parked /\ twin = Parked /\ trav = TravIdle
  /\ ov = Parked /\ app = Parked
  /\ mesh \in SurfaceObjects
  /\ \E count \in 0..MaxSamples :
       query = [pc |-> "surface", i |-> 0, count |-> count, points |-> <<>>]

NextSurface == sample_point \/ return_points

SpecSurface == InitSurface /\ [][NextSurface]_vars

\* ---------------------------------------------------------------------
\* Claims about the points on the surface
\* ---------------------------------------------------------------------

\* q, a point times SqrtSteps^2, is a convex combination of the corners of
\* the triangle
InsideTriangle(q, triangle) ==
  \E wb \in 0..UnitSquare :
    \E wc \in 0..(UnitSquare - wb) :
      q = Add(Scale(UnitSquare - wb - wc, triangle[1]),
              Add(Scale(wb, triangle[2]), Scale(wc, triangle[3])))

\* C22: for all u0, u1 in [0, 1] the pair (1 - sqrt(u0), u1 * sqrt(u0)) has
\* both components in [0, 1] and a sum of at most 1, the generated point
\* lies inside the chosen triangle, and the triangle index drawn is a valid
\* triangle of the mesh: 3 * index + 2 < indices.size()
C22_SamplesInsideValidTriangle ==
  query.pc \in {"surface", "returned_surface"} =>
    \A k \in DOMAIN query.points :
      LET s == query.points[k]
      IN  /\ s.uv[1] >= 0 /\ s.uv[1] <= UnitSquare
          /\ s.uv[2] >= 0 /\ s.uv[2] <= UnitSquare
          /\ s.uv[1] + s.uv[2] <= UnitSquare
          /\ 3 * s.triangle_index + 2 < Size(mesh.m_indices)
          /\ InsideTriangle(s.p, WeldedTriangle([unique_vertices |-> mesh.m_vertices,
                                                 indices |-> mesh.m_indices],
                                                s.triangle_index))

\* a sample of the last triangle of a mesh of two, on the edge from b to c
\* and at neither corner
C22_Witness ==
  /\ query.pc = "returned_surface"
  /\ Size(mesh.m_indices) = 6
  /\ \E k \in DOMAIN query.points :
       LET s == query.points[k]
       IN  /\ s.triangle_index = 1
           /\ s.uv[1] > 0 /\ s.uv[2] > 0
           /\ s.uv[1] + s.uv[2] = UnitSquare

====
